---- MODULE Spec2Model ----
(***************************************************************************)
(* ZTunnel relay: tunnel registry, registration handler (handle_socket),   *)
(* public proxy handler (proxy_handler), per-tunnel circuit breaker and IP *)
(* filter, together with the agent at the far end of the control channel.  *)
(*                                                                         *)
(* Time is counted in ticks of 30 seconds: the request deadline and the    *)
(* breaker's open timeout are one tick, the maximal age of a queued frame  *)
(* is two ticks.  The wall clock that gen_request_id reads advances with   *)
(* the ticks; two readings taken without a tick in between are equal.      *)
(***************************************************************************)
EXTENDS Integers, Sequences, FiniteSets, TLC

\* ------------------------------------------------------------------ bounds
NumConns == 2
NumHandlers == 2
MaxInv == 3
LiveInv == 4
ReqInv == 2
MaxClock == 2
ChanCap == 1
WireCap == 1
MaxQueueSize == 2
NumSuffix == 1
NumCallers == 2
MaxFailures == 4
OutageInv == 6
OutageClock == 5
MaxConnects == 3
MaxFrames == 3
BacklogInv == 4
BacklogClock == 4
BacklogChan == 3
MaxPrefix == 33
MaxBody == 3
MaxChunk == 2

\* ------------------------------------------------------- program constants
FailureThreshold == 3
RequestTimeoutTicks == 1
OpenTimeoutTicks == 1
MaxRequestAgeTicks == 2
HeaderReads == 64

Conns == 1..NumConns
Handlers == 1..NumHandlers
Callers == 1..NumCallers
Suffixes == 1..NumSuffix

NoConn == 0
NoId == -1

Min(a, b) == IF a < b THEN a ELSE b

\* ---------------------------------------------------------------- IP filter
\* An IPv4 address, a network and a mask are 32-bit words written as four
\* octets, most significant first; an IPv6 address is its eight groups, and
\* no range contains it.  NoIp is "no address" (None).
Pow2(n) == 2 ^ n

IPv6Addr == <<0, 0, 0, 0, 0, 0, 0, 1>>
NoIp == <<>>

RECURSIVE BitAnd(_, _, _)
BitAnd(a, b, n) ==
    IF n = 0 THEN 0
    ELSE (IF a % 2 = 1 /\ b % 2 = 1 THEN 1 ELSE 0)
         + 2 * BitAnd(a \div 2, b \div 2, n - 1)

WordAnd(x, y) == [i \in 1..4 |-> BitAnd(x[i], y[i], 8)]

Ip4(a, b, c, d) == <<a, b, c, d>>

\* A CIDR string is [wellformed, octets, prefix]: wellformed is FALSE for a
\* text that does not split into exactly "address/prefix" or whose parts do
\* not parse as numbers.
CidrStr(a, b, c, d, p) == [wellformed |-> TRUE, octets |-> <<a, b, c, d>>, prefix |-> p]
BadCidrStr == [wellformed |-> FALSE, octets |-> <<0, 0, 0, 0>>, prefix |-> 0]

NoRange == [some |-> FALSE, network |-> <<0, 0, 0, 0>>, mask |-> <<0, 0, 0, 0>>]

\* the mask without the special case for a prefix of 0: the shift by 32 wraps
\* to a shift by 0
PrefixMaskAlwaysShifts(p) ==
    [i \in 1..4 |->
        LET k == (IF p = 0 THEN 32 ELSE p) - 8 * (i - 1)
        IN IF k >= 8 THEN 255 ELSE IF k <= 0 THEN 0 ELSE 256 - Pow2(8 - k)]

\* !0u32 << (32 - prefix_len), and 0 for a prefix of 0
PrefixMask(p) ==
    IF p = 0 THEN <<0, 0, 0, 0>>
    ELSE [i \in 1..4 |->
            LET k == p - 8 * (i - 1)
            IN IF k >= 8 THEN 255 ELSE IF k <= 0 THEN 0 ELSE 256 - Pow2(8 - k)]

CidrParse(s) ==
    IF ~s.wellformed THEN NoRange
    ELSE IF \E i \in 1..4 : s.octets[i] > 255 THEN NoRange
    ELSE IF s.prefix > 32 THEN NoRange
    ELSE LET ip == Ip4(s.octets[1], s.octets[2], s.octets[3], s.octets[4])
             mask == PrefixMask(s.prefix)
         IN [some |-> TRUE, network |-> WordAnd(ip, mask), mask |-> mask]

CidrContains(r, ip) ==
    IF Len(ip) # 4 THEN FALSE
    ELSE WordAnd(ip, r.mask) = r.network

\* filter_map over a list of strings: the unparseable ones are dropped.
RECURSIVE ParseAll(_)
ParseAll(strs) ==
    IF strs = <<>> THEN <<>>
    ELSE LET r == CidrParse(Head(strs))
         IN IF r.some THEN <<r>> \o ParseAll(Tail(strs)) ELSE ParseAll(Tail(strs))

FromStrings(allow, deny) == [allow |-> ParseAll(allow), deny |-> ParseAll(deny)]

\* is_allowed that consults the allow list before the deny list
IsAllowedAllowFirst(f, ip) ==
    IF \E i \in 1..Len(f.allow) : CidrContains(f.allow[i], ip) THEN TRUE
    ELSE IF \E i \in 1..Len(f.deny) : CidrContains(f.deny[i], ip) THEN FALSE
    ELSE f.allow = <<>>

IsAllowed(f, ip) ==
    IF \E i \in 1..Len(f.deny) : CidrContains(f.deny[i], ip) THEN FALSE
    ELSE IF f.allow = <<>> THEN TRUE
    ELSE \E i \in 1..Len(f.allow) : CidrContains(f.allow[i], ip)

FilterIsEmpty(f) == f.allow = <<>> /\ f.deny = <<>>

\* extract_client_ip(headers, peer_addr): X-Forwarded-For, then X-Real-IP,
\* then the peer address; each of the three is an address or NoIp.
ExtractClientIp(xff, realip, peer) ==
    IF xff # NoIp THEN xff
    ELSE IF realip # NoIp THEN realip
    ELSE peer

\* ---------------------------------------------------------- circuit breaker
\* A breaker is [state, failures, queue, age]: age is the number of ticks
\* since last_state_change, saturating at OpenTimeoutTicks; each queued frame
\* carries the ticks since queued_at, saturating one past MaxRequestAgeTicks.
NewBreaker == [state |-> "Closed", failures |-> 0, queue |-> <<>>, age |-> 0]

\* record_success
RecordSuccess(b) ==
    IF b.state = "HalfOpen"
    THEN [b EXCEPT !.failures = 0, !.state = "Closed", !.age = 0]
    ELSE [b EXCEPT !.failures = 0]

\* record_failure
RecordFailure(b) ==
    LET failures == b.failures + 1
    IN IF failures >= FailureThreshold /\ b.state = "Closed"
       THEN [b EXCEPT !.failures = failures, !.state = "Open", !.age = 0]
       ELSE [b EXCEPT !.failures = failures]

\* try_send: [ok, breaker]; ok is TRUE for Ok(data), FALSE for Err(()).
TrySend(b, data) ==
    CASE b.state = "Closed" -> [ok |-> TRUE, breaker |-> b]
      [] b.state = "HalfOpen" -> [ok |-> TRUE, breaker |-> b]
      [] b.state = "Open" ->
            IF b.age >= OpenTimeoutTicks
            THEN [ok |-> TRUE, breaker |-> [b EXCEPT !.state = "HalfOpen", !.age = 0]]
            ELSE IF Len(b.queue) < MaxQueueSize
                 THEN [ok |-> FALSE,
                       breaker |-> [b EXCEPT !.queue = Append(@, [data |-> data, age |-> 0])]]
                 ELSE [ok |-> FALSE, breaker |-> b]

RECURSIVE ValidData(_)
ValidData(q) ==
    IF q = <<>> THEN <<>>
    ELSE IF Head(q).age < MaxRequestAgeTicks
         THEN <<Head(q).data>> \o ValidData(Tail(q))
         ELSE ValidData(Tail(q))

\* drain_queue: [valid, breaker]
DrainQueue(b) ==
    [valid |-> ValidData(b.queue),
     breaker |-> [state |-> "Closed", failures |-> 0, queue |-> <<>>, age |-> 0]]

\* One tick of the clock as the breaker sees it.
BreakerTick(b) ==
    [b EXCEPT !.age = Min(@ + 1, OpenTimeoutTicks),
              !.queue = [i \in 1..Len(@) |->
                            [@[i] EXCEPT !.age = Min(@ + 1, MaxRequestAgeTicks + 1)]]]

\* ------------------------------------------------------------------- state
VARIABLES
    registry,   \* AppState.tunnels: set of [key, conn], one entry per key
    active,     \* metrics.active_tunnels
    clock,      \* SystemTime::now(), in ticks
    sock,       \* handle_socket task of each control channel
    tun,        \* the Tunnel each handle_socket task constructs
    wire,       \* frames written to the control channel, not yet read by the agent
    up,         \* response frames sent by the agent, not yet read by the relay
    agent,      \* the agent's end of the control channel: "up" or "closed"
    hs,         \* proxy_handler tasks
    nextInv,    \* number of proxy_handler invocations started so far
    ret,        \* the HTTP response most recently returned by a proxy_handler
    call,       \* tasks calling into the breaker of tunnel 1, step by step
    lock,       \* owners of that breaker's state and queue mutexes
    mt,         \* the task TunnelManager::start_all spawns for one tunnel
    written,    \* the requests whose frame was written to a control channel
    fx,         \* one use of the IP filter: its inputs, where it is, its results
    fw          \* one call of the agent's handle_http_request

vars ==
    <<registry, active, clock, sock, tun, wire, up, agent, hs, nextInv, ret, call, lock,
      mt, written, fx, fw>>

\* Subdomains are sequences of tokens joined by "-": <<"app">> is "app",
\* <<"app", 1>> is "app-1".
SubChoices == {<<"app">>}

\* The "subdomain" member of an advertisement, v.get("subdomain").and_then(as_str):
\* a string (the empty string <<>> included) or nothing.
NoSubdomain == [some |-> FALSE, name |-> <<>>]
SomeSubdomain(n) == [some |-> TRUE, name |-> n]
AdvertisedSubs == {NoSubdomain, SomeSubdomain(<<>>)} \cup {SomeSubdomain(n) : n \in SubChoices}
UnknownHost == <<"nosuch">>

\* Addresses of the public clients and the filters an agent may advertise
\* (allow 10.0.0.0/8, deny 10.1.0.0/16).
DeniedIp == Ip4(10, 1, 2, 3)
AllowedIp == Ip4(10, 2, 3, 4)
OutsideIp == Ip4(8, 8, 8, 8)
ClientIps == {DeniedIp, AllowedIp, OutsideIp}

EmptyAdvert == [allow |-> <<>>, deny |-> <<>>]
RangeAdvert == [allow |-> <<CidrStr(10, 0, 0, 0, 8)>>, deny |-> <<CidrStr(10, 1, 0, 0, 16)>>]
FilterAdverts == {EmptyAdvert, RangeAdvert}

BodyKinds == {"absent", "small", "oversize"}
AgentStatuses == {200}
\* TunnelResponse without its id: status, header list and body as the agent
\* put them in the frame
Response(st, hdrs, body) == [status |-> st, headers |-> hdrs, body |-> body]
\* Header lists an agent can send: none, one header, a header followed by a
\* repeated name, and a name HeaderName::from_bytes rejects.
HeaderLists ==
    {<<>>, <<<<"etag", "v1">>>>,
     <<<<"set-cookie", "a=1">>, <<"etag", "v1">>, <<"set-cookie", "b=2">>>>,
     <<<<"bad name", "x">>, <<"etag", "v1">>>>}
AgentBodies == {<<>>, <<104, 105>>}
AgentResponses ==
    {Response(st, hdrs, body) : st \in {200, 404}, hdrs \in HeaderLists, body \in AgentBodies}

\* registry operations (HashMap insert / remove / get / contains_key)
RegHas(reg, k) == \E e \in reg : e.key = k
RegGet(reg, k) == (CHOOSE e \in reg : e.key = k).conn
RegInsert(reg, k, c) == {e \in reg : e.key # k} \cup {[key |-> k, conn |-> c]}
RegRemove(reg, k) == {e \in reg : e.key # k}

\* pending_requests operations (DashMap insert / remove); an entry [id, inv]
\* holds the oneshot sender whose receiver belongs to invocation inv.
PendHas(p, id) == \E e \in p : e.id = id
PendGet(p, id) == (CHOOSE e \in p : e.id = id).inv
PendInsert(p, id, inv) == {e \in p : e.id # id} \cup {[id |-> id, inv |-> inv]}
\* PendRemove that removes nothing
PendRemoveNothing(p, id) == p
PendRemove(p, id) == {e \in p : e.id # id}

NoFilter == [allow |-> <<>>, deny |-> <<>>]
NoSource == [xff |-> NoIp, realip |-> NoIp, peer |-> NoIp]
IdleSock == [pc |-> "idle", sub |-> <<>>, final |-> <<>>, cur |-> <<>>, adv |-> EmptyAdvert]
NewTunnel(f) ==
    [filter |-> f, breaker |-> NewBreaker, pending |-> {}, chan |-> <<>>, chanOpen |-> TRUE]
IdleHandler ==
    [pc |-> "idle", inv |-> 0, host |-> <<>>, conn |-> NoConn, id |-> NoId, rx |-> "none",
     timer |-> 0, status |-> 0, answers |-> 0, src |-> NoSource, body |-> "absent",
     warned |-> FALSE, headers |-> <<>>, rbody |-> <<>>]

\* A returned response: the invocation, the subdomain it asked for, the tunnel
\* and request id it used (if any), the status, and the invocation whose request the agent was answering
\* when the status is the agent's.
Return(r, status) ==
    [inv |-> r.inv, host |-> r.host, conn |-> r.conn, id |-> r.id, status |-> status,
     answers |-> r.answers, src |-> r.src, body |-> r.body, headers |-> <<>>, rbody |-> <<>>]
NoReturn == Return(IdleHandler, 0)

\* A task's call into the breaker: the function it is in, where it is in
\* that function, the frame it passed to try_send, and the result of its last
\* try_send ("ok" for Ok(data), "queued" and "dropped" for the two Err(())),
\* and the frames its last drain_queue returned.
IdleCall == [op |-> "none", pc |-> "idle", data |-> 0, res |-> "none", out |-> <<>>]
\* 0 is "not held"; readers and writers are the tasks holding a guard of the
\* registry's RwLock (AppState.tunnels)
NoLocks == [state |-> 0, queue |-> 0, readers |-> {}, writers |-> {}]

\* The tasks that lock the registry: a handle_socket task is numbered as its
\* control channel, the proxy_handler tasks follow them.
HandlerTask(h) == NumConns + h
\* tunnels.read().await returns while no other task holds the write guard,
\* tunnels.write().await while no other task holds any guard.
ReadFree(t) == lock.writers \subseteq {t}
WriteFree(t) == lock.writers \subseteq {t} /\ lock.readers \subseteq {t}
\* The guard goes out of scope.
Released(t) == [lock EXCEPT !.readers = @ \ {t}, !.writers = @ \ {t}]

\* The multi-tunnel task before its first connect_async: its position, the
\* number of connection attempts it has made, the state of the current channel
\* ("none", "up", or "eof" / "error" once the transport is gone), the messages
\* the relay sent that it has not read yet, how many the relay sent on this
\* channel, and how many response frames the task wrote on it.
IdleAgent ==
    [pc |-> "connect", conns |-> 0, link |-> "none", inbox |-> <<>>, got |-> 0, sent |-> 0]

\* One use of the IP filter: the allow and deny strings of an advertisement,
\* a CIDR string, an address, and what from_strings, is_allowed, parse and
\* contains made of them so far.
FilterUse(allow, deny, cidr, ip) ==
    [pc |-> "input", allow |-> allow, deny |-> deny, cidr |-> cidr, ip |-> ip,
     filter |-> NoFilter, allowed |-> FALSE, range |-> NoRange, inside |-> FALSE]
NoFilterUse == [FilterUse(<<>>, <<>>, BadCidrStr, NoIp) EXCEPT !.pc = "none"]

\* The bytes a local service writes, in units: a byte of the status line
\* ahead of the status code ("version"), the rest of the status line with
\* status code v ("status"), "\r\n" ("crlf"), a header line named k whose
\* value is the number v when num and no number otherwise ("header"), and the
\* body byte v ("byte").
Unit(t, k, num, v) == [t |-> t, k |-> k, num |-> num, v |-> v]

\* A response of the service: d bytes ahead of the status code, the status line,
\* the header lines, and, when the service gets that far, the blank line and
\* m body bytes 1, 2, ..., m.
ServiceBytes(d, lines, m, complete) ==
    [i \in 1..d |-> Unit("version", "", FALSE, 0)]
    \o <<Unit("status", "", TRUE, 200), Unit("crlf", "", FALSE, 0)>>
    \o [i \in 1..(2 * Len(lines)) |->
           IF i % 2 = 1 THEN lines[(i + 1) \div 2] ELSE Unit("crlf", "", FALSE, 0)]
    \o (IF complete
        THEN <<Unit("crlf", "", FALSE, 0)>> \o [i \in 1..m |-> Unit("byte", "", TRUE, i)]
        ELSE <<>>)

\* handle_http_request before it is called: the id of the request, the bytes
\* the service will write, how many leading bytes it writes one per read,
\* whether it closes the connection after the last byte, how many bytes and
\* reads the agent has made, its buf, header_end (0 is None), status,
\* headers, content_len, body, and the TunnelResponse it sends.
NoForward ==
    [pc |-> "idle", id |-> 0, bytes |-> <<>>, drib |-> 0, closes |-> FALSE,
     pos |-> 0, reads |-> 0, buf |-> <<>>, hend |-> 0, status |-> 0, headers |-> <<>>,
     cl |-> [some |-> FALSE, n |-> 0], body |-> <<>>,
     resp |-> [id |-> 0, status |-> 0, headers |-> <<>>, body |-> <<>>]]

\* Every variable but fx, as main leaves it before the first connection.
InitRelay ==
    /\ registry = {}
    /\ active = 0
    /\ clock = 0
    /\ sock = [c \in Conns |-> IdleSock]
    /\ tun = [c \in Conns |-> NewTunnel(NoFilter)]
    /\ wire = [c \in Conns |-> <<>>]
    /\ up = [c \in Conns |-> <<>>]
    /\ agent = [c \in Conns |-> "up"]
    /\ hs = [h \in Handlers |-> IdleHandler]
    /\ nextInv = 0
    /\ ret = NoReturn
    /\ call = [k \in Callers |-> IdleCall]
    /\ lock = NoLocks
    /\ mt = IdleAgent
    /\ written = {}
    /\ fw = NoForward

Init == InitRelay /\ fx = NoFilterUse

\* The inputs of the filter: CIDR strings with every prefix length up to
\* MaxPrefix on four addresses, a text that is no CIDR and an octet over 255;
\* addresses inside and outside those networks and an IPv6 address; allow
\* and deny lists of such strings.
InitFilter ==
    LET CidrSamples ==
            {CidrStr(b[1], b[2], b[3], b[4], p) :
                b \in {Ip4(10, 1, 2, 3), Ip4(192, 168, 1, 0), Ip4(0, 0, 0, 0),
                       Ip4(255, 255, 255, 255)},
                p \in 0..MaxPrefix}
            \cup {BadCidrStr, CidrStr(256, 1, 2, 3, 8)}
        AddrSamples ==
            {Ip4(10, 1, 2, 3), Ip4(10, 1, 3, 200), Ip4(10, 1, 130, 3), Ip4(11, 1, 2, 3),
             Ip4(192, 168, 1, 77), Ip4(0, 0, 0, 0), Ip4(255, 255, 255, 255), IPv6Addr}
        ListSamples ==
            {<<>>, <<CidrStr(10, 0, 0, 0, 8)>>, <<CidrStr(10, 1, 2, 0, 23), BadCidrStr>>,
             <<CidrStr(192, 168, 0, 0, 16), CidrStr(10, 1, 2, 3, 32)>>, <<BadCidrStr>>,
             <<CidrStr(0, 0, 0, 0, 0)>>}
    IN /\ InitRelay
       /\ fx \in {FilterUse(allow, deny, cidr, ip) :
                     allow \in ListSamples, deny \in ListSamples,
                     cidr \in CidrSamples, ip \in AddrSamples}

\* Dropping a oneshot sender closes the receiver of an invocation that is
\* still waiting on it; dropped is the set of invocations whose sender went.
CloseRx(H, dropped) ==
    [h \in Handlers |->
        IF H[h].inv \in dropped /\ H[h].rx = "empty"
        THEN [H[h] EXCEPT !.rx = "closed"] ELSE H[h]]

\* ---------------------------------------------------- registration handler
\* handle_socket, lines 107-148: the advertisement is read, the channel and
\* the breaker are created and the final subdomain is chosen under the
\* registry's read lock.
\* gen_subdomain: "t" and the wall clock in hexadecimal
GenSubdomain == <<"t", clock>>

\* line 138: the first frame was read and tunnels.read().await returned the
\* guard of the conflict resolution (pc "resolve")
SockLeaseRead(c) ==
    /\ sock[c].pc = "idle"
    /\ agent[c] = "up"
    /\ \A d \in Conns : d < c => sock[d].pc # "idle"
    /\ ReadFree(c)
    /\ sock' = [sock EXCEPT ![c].pc = "resolve"]
    /\ lock' = [lock EXCEPT !.readers = @ \cup {c}]
    /\ UNCHANGED <<registry, active, clock, tun, wire, up, agent, hs, nextInv, ret, call, mt, written, fx, fw>>

\* lines 107-150: the first frame, the filter, and the conflict resolution in
\* the block of lines 137-148, at whose end the read guard is dropped
SockRegister(c, Subs, Adverts) ==
    /\ sock[c].pc \in {"idle", "resolve"}
    /\ sock[c].pc = "idle" => agent[c] = "up" /\ \A d \in Conns : d < c => sock[d].pc # "idle"
    /\ ReadFree(c)
    /\ lock' = Released(c)
    /\ \E sa \in Subs, adv \in Adverts, sfx \in Suffixes :
          LET s == IF sa.some THEN sa.name ELSE GenSubdomain
              final == IF RegHas(registry, s) THEN Append(s, sfx) ELSE s
          IN /\ sock' = [sock EXCEPT ![c] = [pc |-> "insert", sub |-> s, final |-> final,
                                             cur |-> <<>>, adv |-> adv]]
             /\ tun' = [tun EXCEPT ![c] = NewTunnel(FromStrings(adv.allow, adv.deny))]
    /\ UNCHANGED <<registry, active, clock, wire, up, agent, hs, nextInv, ret, call, mt, written, fx, fw>>

\* ws_handler, lines 100-102: the upgraded connection is handed to a
\* handle_socket task, which awaits its first frame (socket.recv(), line 107)
SockAccept(c) ==
    /\ sock[c].pc = "idle"
    /\ agent[c] = "up"
    /\ \A d \in Conns : d < c => sock[d].pc # "idle"
    /\ sock' = [sock EXCEPT ![c].pc = "recv"]
    /\ UNCHANGED <<registry, active, clock, tun, wire, up, agent, hs, nextInv, ret, call, lock, mt, written, fx, fw>>

\* The agent sends its first frame: an advertisement (text) or a binary frame.
AgentAdvertise(c, Subs, Adverts) ==
    /\ agent[c] = "up"
    /\ sock[c].pc = "recv"
    /\ up[c] = <<>>
    /\ \E text \in BOOLEAN, sa \in Subs, adv \in Adverts :
          up' = [up EXCEPT ![c] =
                    <<IF text THEN [text |-> TRUE, sub |-> sa, adv |-> adv]
                      ELSE [text |-> FALSE, sub |-> NoSubdomain, adv |-> EmptyAdvert]>>]
    /\ UNCHANGED <<registry, active, clock, sock, tun, wire, agent, hs, nextInv, ret, call, lock, mt, written, fx, fw>>

\* lines 107-148 once socket.recv() has returned: a text frame is parsed, any
\* other frame and the end of the stream make an anonymous tunnel.  recv has
\* no deadline: without a frame and with the channel open the task waits.
SockRecvFirst(c) ==
    /\ sock[c].pc = "recv"
    /\ ReadFree(c)
    /\ up[c] # <<>> \/ agent[c] = "closed"
    /\ \E sfx \in Suffixes :
          LET parsed == up[c] # <<>> /\ Head(up[c]).text
              s == IF parsed /\ Head(up[c]).sub.some
                   THEN Head(up[c]).sub.name ELSE GenSubdomain
              f == IF parsed
                   THEN FromStrings(Head(up[c]).adv.allow, Head(up[c]).adv.deny)
                   ELSE NoFilter
              final == IF RegHas(registry, s) THEN Append(s, sfx) ELSE s
          IN /\ sock' = [sock EXCEPT ![c] = [pc |-> "insert", sub |-> s, final |-> final,
                                             cur |-> <<>>,
                                             adv |-> IF parsed THEN Head(up[c]).adv
                                                     ELSE EmptyAdvert]]
             /\ tun' = [tun EXCEPT ![c] = NewTunnel(f)]
    /\ up' = [up EXCEPT ![c] = IF @ = <<>> THEN @ ELSE Tail(@)]
    /\ UNCHANGED <<registry, active, clock, wire, agent, hs, nextInv, ret, call, lock, mt, written, fx, fw>>

\* line 152: tunnels.write().await returned the write guard
SockLeaseWrite(c) ==
    /\ sock[c].pc = "insert"
    /\ c \notin lock.writers
    /\ WriteFree(c)
    /\ lock' = [lock EXCEPT !.writers = @ \cup {c}]
    /\ UNCHANGED <<registry, active, clock, sock, tun, wire, up, agent, hs, nextInv, ret, call, mt, written, fx, fw>>

\* lines 150-153: insert under the registry's write lock; the guard is a
\* temporary of the statement of line 152 and is dropped at its end
SockInsert(c) ==
    /\ sock[c].pc = "insert"
    /\ WriteFree(c)
    /\ registry' = RegInsert(registry, sock[c].final, c)
    /\ active' = active + 1
    /\ sock' = [sock EXCEPT ![c].pc = "ack"]
    /\ lock' = Released(c)
    /\ UNCHANGED <<clock, tun, wire, up, agent, hs, nextInv, ret, call, mt, written, fx, fw>>

\* lines 155-174: the acknowledgement; a failed send removes the entry and
\* returns (pc "failed"), which drops the receiver of the outbound frame queue.
SockAck(c) ==
    /\ sock[c].pc = "ack"
    /\ IF agent[c] = "up"
       THEN /\ sock' = [sock EXCEPT ![c].pc = "drain"]
            /\ UNCHANGED <<registry, active, tun>>
       ELSE /\ WriteFree(c)
            /\ registry' = RegRemove(registry, sock[c].final)
            /\ active' = active - 1
            /\ sock' = [sock EXCEPT ![c].pc = "failed"]
            /\ tun' = [tun EXCEPT ![c].chan = <<>>, ![c].chanOpen = FALSE]
    /\ UNCHANGED <<clock, wire, up, agent, hs, nextInv, ret, call, lock, mt, written, fx, fw>>

\* lines 176-184: drain the breaker queue onto the control channel
SockDrain(c) ==
    /\ sock[c].pc = "drain"
    /\ LET d == DrainQueue(tun[c].breaker)
       IN /\ tun' = [tun EXCEPT ![c].breaker = d.breaker]
          /\ wire' = IF agent[c] = "up" THEN [wire EXCEPT ![c] = @ \o d.valid] ELSE wire
          /\ written' = IF agent[c] = "up"
                        THEN written \cup {d.valid[i].inv : i \in 1..Len(d.valid)}
                        ELSE written
    /\ sock' = [sock EXCEPT ![c].pc = "loop"]
    /\ UNCHANGED <<registry, active, clock, up, agent, hs, nextInv, ret, call, lock, mt, fx, fw>>

\* lines 195-202: a response frame from the agent
SockRecvResponse(c) ==
    /\ sock[c].pc = "loop"
    /\ up[c] # <<>>
    /\ LET resp == Head(up[c])
           p == tun[c].pending
           found == PendHas(p, resp.id)
           rcv == IF found THEN PendGet(p, resp.id) ELSE 0
       IN /\ tun' = [tun EXCEPT ![c].breaker = RecordSuccess(@),
                                ![c].pending = PendRemove(@, resp.id)]
          /\ hs' = [h \in Handlers |->
                      IF found /\ hs[h].inv = rcv /\ hs[h].rx = "empty"
                      THEN [hs[h] EXCEPT !.rx = "value", !.status = resp.status,
                                         !.answers = resp.inv,
                                         !.headers = resp.headers,
                                         !.rbody = resp.body]
                      ELSE hs[h]]
    /\ up' = [up EXCEPT ![c] = Tail(@)]
    /\ UNCHANGED <<registry, active, clock, sock, wire, agent, nextInv, ret, call, lock, mt, written, fx, fw>>

\* lines 221-223 and the return: the registry entry of the REQUESTED
\* subdomain is removed; returning drops the queue's receiver.
ExitKey(c) == sock[c].sub

SockExit(c, b) ==
    /\ WriteFree(c)
    /\ registry' = RegRemove(registry, ExitKey(c))
    /\ active' = active - 1
    /\ sock' = [sock EXCEPT ![c].pc = "done", ![c].cur = <<>>]
    /\ tun' = [tun EXCEPT ![c].breaker = b, ![c].chan = <<>>, ![c].chanOpen = FALSE]

\* line 203: Close or end of stream
SockRecvClose(c) ==
    /\ sock[c].pc = "loop"
    /\ up[c] = <<>>
    /\ agent[c] = "closed"
    /\ SockExit(c, tun[c].breaker)
    /\ UNCHANGED <<clock, wire, up, agent, hs, nextInv, ret, call, lock, mt, written, fx, fw>>

\* SockSend that leaves the frame it wrote at the head of the outbound queue
SockSendKeepsFrame(c) ==
    /\ sock[c].pc = "loop"
    /\ tun[c].chan # <<>>
    /\ LET data == Head(tun[c].chan)
       IN IF agent[c] = "closed"
          THEN /\ SockExit(c, RecordFailure(tun[c].breaker))
               /\ UNCHANGED <<wire, written>>
          ELSE /\ Len(wire[c]) < WireCap
               /\ wire' = [wire EXCEPT ![c] = Append(@, data)]
               /\ written' = written \cup {data.inv}
               /\ UNCHANGED <<registry, active, sock, tun>>
    /\ UNCHANGED <<clock, up, agent, hs, nextInv, ret, call, lock, mt, fx, fw>>

\* lines 207-212: a frame of the outbound queue is written to the channel;
\* the write waits while the transport has no room.
SockSend(c) ==
    /\ sock[c].pc = "loop"
    /\ tun[c].chan # <<>>
    /\ LET data == Head(tun[c].chan)
       IN IF agent[c] = "closed"
          THEN /\ SockExit(c, RecordFailure(tun[c].breaker))
               /\ UNCHANGED <<wire, written>>
          ELSE IF Len(wire[c]) < WireCap
          THEN /\ wire' = [wire EXCEPT ![c] = Append(@, data)]
               /\ written' = written \cup {data.inv}
               /\ tun' = [tun EXCEPT ![c].chan = Tail(@)]
               /\ UNCHANGED <<registry, active, sock>>
          ELSE /\ sock' = [sock EXCEPT ![c].pc = "blocked", ![c].cur = <<data>>]
               /\ tun' = [tun EXCEPT ![c].chan = Tail(@)]
               /\ UNCHANGED <<registry, active, wire, written>>
    /\ UNCHANGED <<clock, up, agent, hs, nextInv, ret, call, lock, mt, fx, fw>>

\* SockUnblock that forgets the frame it was holding
SockUnblockDropsFrame(c) ==
    /\ sock[c].pc = "blocked"
    /\ IF agent[c] = "closed"
       THEN /\ SockExit(c, RecordFailure(tun[c].breaker))
            /\ UNCHANGED <<wire, written>>
       ELSE /\ Len(wire[c]) < WireCap
            /\ sock' = [sock EXCEPT ![c].pc = "loop", ![c].cur = <<>>]
            /\ UNCHANGED <<registry, active, tun, wire, written>>
    /\ UNCHANGED <<clock, up, agent, hs, nextInv, ret, call, lock, mt, fx, fw>>

SockUnblock(c) ==
    /\ sock[c].pc = "blocked"
    /\ IF agent[c] = "closed"
       THEN /\ SockExit(c, RecordFailure(tun[c].breaker))
            /\ UNCHANGED <<wire, written>>
       ELSE /\ Len(wire[c]) < WireCap
            /\ wire' = [wire EXCEPT ![c] = Append(@, sock[c].cur[1])]
            /\ written' = written \cup {sock[c].cur[1].inv}
            /\ sock' = [sock EXCEPT ![c].pc = "loop", ![c].cur = <<>>]
            /\ UNCHANGED <<registry, active, tun>>
    /\ UNCHANGED <<clock, up, agent, hs, nextInv, ret, call, lock, mt, fx, fw>>

\* lines 213-217: the keepalive ping fails once the agent is gone
SockPingFail(c) ==
    /\ sock[c].pc = "loop"
    /\ agent[c] = "closed"
    /\ SockExit(c, tun[c].breaker)
    /\ UNCHANGED <<clock, wire, up, agent, hs, nextInv, ret, call, lock, mt, written, fx, fw>>

\* -------------------------------------------------------------------- agent
\* run_single_tunnel: the agent services one frame at a time; a request it
\* cannot service produces no response frame.
AgentRespond(c, Resps) ==
    /\ agent[c] = "up"
    /\ wire[c] # <<>>
    /\ LET f == Head(wire[c])
       IN \E r \in Resps :
             up' = [up EXCEPT ![c] = Append(@, [id |-> f.id, inv |-> f.inv, status |-> r.status,
                                                headers |-> r.headers, body |-> r.body])]
    /\ wire' = [wire EXCEPT ![c] = Tail(@)]
    /\ UNCHANGED <<registry, active, clock, sock, tun, agent, hs, nextInv, ret, call, lock, mt, written, fx, fw>>

\* The warn! of line 129 is kept with the invocation the frame came from
\* (field warned), for as long as that invocation is running.
AgentFail(c) ==
    /\ agent[c] = "up"
    /\ wire[c] # <<>>
    /\ wire' = [wire EXCEPT ![c] = Tail(@)]
    /\ hs' = [h \in Handlers |->
                IF hs[h].pc # "idle" /\ hs[h].inv = Head(wire[c]).inv
                THEN [hs[h] EXCEPT !.warned = TRUE] ELSE hs[h]]
    /\ UNCHANGED <<registry, active, clock, sock, tun, up, agent, nextInv, ret, call, lock, mt, written, fx, fw>>

\* The agent closes the channel or is killed.
AgentClose(c) ==
    /\ agent[c] = "up"
    /\ sock[c].pc \notin {"idle", "failed", "done"}
    /\ agent' = [agent EXCEPT ![c] = "closed"]
    /\ wire' = [wire EXCEPT ![c] = <<>>]
    /\ UNCHANGED <<registry, active, clock, sock, tun, up, hs, nextInv, ret, call, lock, mt, written, fx, fw>>

\* ------------------------------------------------------------ proxy handler
\* A public request carries the Host's leftmost label, the addresses of its
\* X-Forwarded-For and X-Real-IP headers (NoIp when the header is absent),
\* the peer address of its connection and the size class of its body.
Source(xff, realip, peer) == [xff |-> xff, realip |-> realip, peer |-> peer]

\* gen_request_id: the wall clock, formatted
GenRequestId == clock

\* axum::body::to_bytes(body, 10 MiB), lines 242-245: the body that goes into
\* the request record
ReadBody(kind) == IF kind = "small" THEN "small" ELSE "absent"

\* The serialized TunnelRequest; inv stands for the method, path and headers
\* of the invocation's request.
Frame(r) == [id |-> r.id, inv |-> r.inv, body |-> ReadBody(r.body)]

\* the peer address handed to extract_client_ip, line 263
PeerArg(peer) == NoIp

\* the filter decision of lines 262-270: TRUE when the request is refused
Refused(f, src) ==
    LET ip == ExtractClientIp(src.xff, src.realip, PeerArg(src.peer))
    IN /\ ~FilterIsEmpty(f)
       /\ ip # NoIp
       /\ ~IsAllowed(f, ip)

\* StatusCode::from_u16(resp.status).unwrap_or(OK), line 310
StatusOf(st) == IF st >= 100 /\ st <= 999 THEN st ELSE 200

\* HeaderName::from_bytes, line 314: names are tokens
IsHeaderName(n) == n \notin {"", "bad name"}

\* HeaderMap::insert, line 315: the value replaces the one the map holds
\* under that name, or the pair is added
HeaderMapInsert(m, kv) ==
    IF \E i \in 1..Len(m) : m[i][1] = kv[1]
    THEN [i \in 1..Len(m) |-> IF m[i][1] = kv[1] THEN kv ELSE m[i]]
    ELSE Append(m, kv)

\* lines 312-318: the header map built from the response's header list, as
\* the list of pairs it is written out with
RECURSIVE BuildHeaders(_, _)
BuildHeaders(m, hdrs) ==
    IF hdrs = <<>> THEN m
    ELSE BuildHeaders(IF IsHeaderName(Head(hdrs)[1]) THEN HeaderMapInsert(m, Head(hdrs)) ELSE m,
                      Tail(hdrs))

SlotFree(h) == hs[h].pc = "idle"

\* lines 242-251: the request body was read and tunnels.read().await returned
\* the read guard (pc "lookup")
HandlerLease(h, invs, maxc) ==
    /\ SlotFree(h)
    /\ \A g \in Handlers : g < h => ~SlotFree(g)
    /\ nextInv + Cardinality({g \in Handlers : hs[g].pc = "lookup"}) < invs
    /\ clock < maxc
    /\ ReadFree(HandlerTask(h))
    /\ hs' = [hs EXCEPT ![h].pc = "lookup"]
    /\ lock' = [lock EXCEPT !.readers = @ \cup {HandlerTask(h)}]
    /\ UNCHANGED <<registry, active, clock, sock, tun, wire, up, agent, nextInv, ret, call, mt, written, fx, fw>>

\* HandlerLookup that keeps the read guard for the rest of the handler
HandlerLookupKeepsGuard(h, Sources, Bodies, invs, maxc) ==
    /\ hs[h].pc \in {"idle", "lookup"}
    /\ SlotFree(h) =>
          /\ \A g \in Handlers : g < h => ~SlotFree(g)
          /\ nextInv + Cardinality({g \in Handlers : hs[g].pc = "lookup"}) < invs
          /\ clock < maxc
    /\ ReadFree(HandlerTask(h))
    /\ nextInv' = nextInv + 1
    /\ \E host \in {e.key : e \in registry} \cup SubChoices \cup {UnknownHost},
          src \in Sources, body \in Bodies :
          LET new == [IdleHandler EXCEPT !.inv = nextInv + 1, !.host = host,
                                         !.src = src, !.body = body]
          IN IF ~RegHas(registry, host)
             THEN /\ ret' = Return(new, 404)
                  /\ hs' = [hs EXCEPT ![h] = IdleHandler]
             ELSE LET c == RegGet(registry, host)
                  IN IF Refused(tun[c].filter, src)
                     THEN /\ ret' = Return([new EXCEPT !.conn = c], 403)
                          /\ hs' = [hs EXCEPT ![h] = IdleHandler]
                     ELSE /\ hs' = [hs EXCEPT ![h] =
                                       [new EXCEPT !.pc = "trysend", !.conn = c,
                                                   !.id = GenRequestId]]
                          /\ ret' = ret
    /\ UNCHANGED <<registry, active, clock, sock, tun, wire, up, agent, call, lock, mt, written, fx, fw>>

\* lines 231-285: subdomain lookup, IP filter, request id, serialization.  The
\* read guard lives in the block of lines 250-259: the tunnel is cloned and
\* the guard dropped at the end of the block or at its return.
HandlerLookup(h, Sources, Bodies, invs, maxc) ==
    /\ hs[h].pc \in {"idle", "lookup"}
    /\ SlotFree(h) =>
          /\ \A g \in Handlers : g < h => ~SlotFree(g)
          /\ nextInv + Cardinality({g \in Handlers : hs[g].pc = "lookup"}) < invs
          /\ clock < maxc
    /\ ReadFree(HandlerTask(h))
    /\ nextInv' = nextInv + 1
    /\ \E host \in {e.key : e \in registry} \cup SubChoices \cup {UnknownHost},
          src \in Sources, body \in Bodies :
          LET new == [IdleHandler EXCEPT !.inv = nextInv + 1, !.host = host,
                                         !.src = src, !.body = body]
          IN IF ~RegHas(registry, host)
             THEN /\ ret' = Return(new, 404)
                  /\ hs' = [hs EXCEPT ![h] = IdleHandler]
             ELSE LET c == RegGet(registry, host)
                  IN IF Refused(tun[c].filter, src)
                     THEN /\ ret' = Return([new EXCEPT !.conn = c], 403)
                          /\ hs' = [hs EXCEPT ![h] = IdleHandler]
                     ELSE /\ hs' = [hs EXCEPT ![h] =
                                       [new EXCEPT !.pc = "trysend", !.conn = c,
                                                   !.id = GenRequestId]]
                          /\ ret' = ret
    /\ lock' = Released(HandlerTask(h))
    /\ UNCHANGED <<registry, active, clock, sock, tun, wire, up, agent, call, mt, written, fx, fw>>

\* HandlerTrySend with the receptacle inserted before the breaker decides and
\* left in the table when the breaker refuses
HandlerTrySendInsertsFirst(h) ==
    /\ hs[h].pc = "trysend"
    /\ LET c == hs[h].conn
           r == TrySend(tun[c].breaker, Frame(hs[h]))
           p == tun[c].pending
           replaced == {e.inv : e \in {e \in p : e.id = hs[h].id}}
       IN /\ tun' = [tun EXCEPT ![c].breaker = r.breaker,
                                ![c].pending = PendInsert(@, hs[h].id, hs[h].inv)]
          /\ IF r.ok
             THEN /\ hs' = [CloseRx(hs, replaced) EXCEPT ![h].pc = "send", ![h].rx = "empty"]
                  /\ ret' = ret
             ELSE /\ hs' = [CloseRx(hs, replaced) EXCEPT ![h] = IdleHandler]
                  /\ ret' = Return(hs[h], 503)
    /\ UNCHANGED <<registry, active, clock, sock, wire, up, agent, nextInv, call, lock, mt, written, fx, fw>>

\* lines 288-298: the breaker decides; on Ok the receptacle is inserted
HandlerTrySend(h) ==
    /\ hs[h].pc = "trysend"
    /\ LET c == hs[h].conn
           r == TrySend(tun[c].breaker, Frame(hs[h]))
           p == tun[c].pending
           replaced == {e.inv : e \in {e \in p : e.id = hs[h].id}}
       IN IF r.ok
          THEN /\ tun' = [tun EXCEPT ![c].breaker = r.breaker,
                                     ![c].pending = PendInsert(@, hs[h].id, hs[h].inv)]
               /\ hs' = [CloseRx(hs, replaced) EXCEPT ![h].pc = "send", ![h].rx = "empty"]
               /\ ret' = ret
          ELSE /\ tun' = [tun EXCEPT ![c].breaker = r.breaker]
               /\ hs' = [hs EXCEPT ![h] = IdleHandler]
               /\ ret' = Return(hs[h], 503)
    /\ UNCHANGED <<registry, active, clock, sock, wire, up, agent, nextInv, call, lock, mt, written, fx, fw>>

\* HandlerGiveUp without the removal of the pending entry
HandlerGiveUpKeepsEntry(h, status) ==
    LET c == hs[h].conn
    IN /\ tun' = [tun EXCEPT ![c].breaker = RecordFailure(@)]
       /\ hs' = [hs EXCEPT ![h] = IdleHandler]
       /\ ret' = Return(hs[h], status)

\* the error paths of lines 301-305, 354-358 and 361-365: the entry under the
\* id is removed, a failure is recorded and the status is returned
HandlerGiveUp(h, status) ==
    LET c == hs[h].conn
        removed == {e.inv : e \in {e \in tun[c].pending : e.id = hs[h].id}}
    IN /\ tun' = [tun EXCEPT ![c].pending = PendRemove(@, hs[h].id),
                             ![c].breaker = RecordFailure(@)]
       /\ hs' = [CloseRx(hs, removed \ {hs[h].inv}) EXCEPT ![h] = IdleHandler]
       /\ ret' = Return(hs[h], status)

\* HandlerSend whose failure path records no breaker failure
HandlerSendNoFailure(h, cap) ==
    /\ hs[h].pc = "send"
    /\ LET c == hs[h].conn
       IN IF ~tun[c].chanOpen
          THEN /\ tun' = [tun EXCEPT ![c].pending = PendRemove(@, hs[h].id)]
               /\ hs' = [hs EXCEPT ![h] = IdleHandler]
               /\ ret' = Return(hs[h], 502)
          ELSE /\ Len(tun[c].chan) < cap
               /\ tun' = [tun EXCEPT ![c].chan = Append(@, Frame(hs[h]))]
               /\ hs' = [hs EXCEPT ![h].pc = "await", ![h].timer = RequestTimeoutTicks]
               /\ ret' = ret
    /\ UNCHANGED <<registry, active, clock, sock, wire, up, agent, nextInv, call, lock, mt, written, fx, fw>>

\* line 300 and Tunnel::send: enqueue on the outbound frame queue; the send
\* waits while the queue is full and fails once the receiver is dropped
HandlerSend(h, cap) ==
    /\ hs[h].pc = "send"
    /\ LET c == hs[h].conn
       IN IF ~tun[c].chanOpen
          THEN HandlerGiveUp(h, 502)
          ELSE /\ Len(tun[c].chan) < cap
               /\ tun' = [tun EXCEPT ![c].chan = Append(@, Frame(hs[h]))]
               /\ hs' = [hs EXCEPT ![h].pc = "await", ![h].timer = RequestTimeoutTicks]
               /\ ret' = ret
    /\ UNCHANGED <<registry, active, clock, sock, wire, up, agent, nextInv, call, lock, mt, written, fx, fw>>

\* lines 309-352: the response arrived
HandlerResponse(h) ==
    /\ hs[h].pc = "await"
    /\ hs[h].rx = "value"
    /\ hs' = [hs EXCEPT ![h] = IdleHandler]
    /\ ret' = [Return(hs[h], StatusOf(hs[h].status))
                 EXCEPT !.headers = BuildHeaders(<<>>, hs[h].headers),
                        !.rbody = hs[h].rbody]
    /\ UNCHANGED <<registry, active, clock, sock, tun, wire, up, agent, nextInv, call, lock, mt, written, fx, fw>>

\* lines 353-359: the sender was dropped
HandlerClosed(h) ==
    /\ hs[h].pc = "await"
    /\ hs[h].rx = "closed"
    /\ HandlerGiveUp(h, 502)
    /\ UNCHANGED <<registry, active, clock, sock, wire, up, agent, nextInv, call, lock, mt, written, fx, fw>>

\* lines 360-366: the deadline passed with the receptacle still empty
HandlerTimeout(h) ==
    /\ hs[h].pc = "await"
    /\ hs[h].rx = "empty"
    /\ hs[h].timer = 0
    /\ HandlerGiveUp(h, 504)
    /\ UNCHANGED <<registry, active, clock, sock, wire, up, agent, nextInv, call, lock, mt, written, fx, fw>>

\* --------------------------------------------------------------------- time
Tick(maxc) ==
    /\ clock' = Min(clock + 1, maxc)
    /\ hs' = [h \in Handlers |->
                IF hs[h].pc = "await" /\ hs[h].timer > 0
                THEN [hs[h] EXCEPT !.timer = @ - 1] ELSE hs[h]]
    /\ tun' = [c \in Conns |-> [tun[c] EXCEPT !.breaker = BreakerTick(@)]]
    /\ <<clock', hs', tun'>> # <<clock, hs, tun>>
    /\ UNCHANGED <<registry, active, sock, wire, up, agent, nextInv, ret, call, lock, mt, written, fx, fw>>

\* --------------------------------------------------- the breaker, call by call
\* Tasks holding clones of tunnel 1's breaker call into it concurrently.  A
\* call is cut where it awaits a mutex that another call can hold across an
\* await of its own: try_send holds the state mutex while it awaits the queue
\* mutex, drain_queue holds the queue mutex while it awaits the state mutex.
\* last_state_change is only locked by a call that holds the state mutex.
Cb == tun[1].breaker

relayVars == <<registry, active, clock, sock, wire, up, agent, hs, nextInv, ret, mt, written, fx, fw>>

\* record_success, line 82: the counter is zeroed first
CbRecordSuccess(k) ==
    /\ call[k].pc = "idle"
    /\ tun' = [tun EXCEPT ![1].breaker.failures = 0]
    /\ call' = [call EXCEPT ![k] = [IdleCall EXCEPT !.op = "record_success", !.pc = "rs_state"]]
    /\ UNCHANGED <<lock, relayVars>>

\* the second half of record_success without its HalfOpen -> Closed transition
CbSuccessNoTransition(k) ==
    /\ call[k].pc = "rs_state"
    /\ lock.state = 0
    /\ tun' = tun
    /\ call' = [call EXCEPT ![k].pc = "idle"]
    /\ UNCHANGED <<lock, relayVars>>

\* record_success, lines 83-88, under the state mutex
CbSuccessTransition(k) ==
    /\ call[k].pc = "rs_state"
    /\ lock.state = 0
    /\ tun' = [tun EXCEPT ![1].breaker =
                  IF @.state = "HalfOpen"
                  THEN [@ EXCEPT !.state = "Closed", !.age = 0] ELSE @]
    /\ call' = [call EXCEPT ![k].pc = "idle"]
    /\ UNCHANGED <<lock, relayVars>>

\* record_failure, lines 93-95: fetch_add, and the threshold test on its result
CbRecordFailure(k) ==
    /\ call[k].pc = "idle"
    /\ Cb.failures < MaxFailures
    /\ LET failures == Cb.failures + 1
       IN /\ tun' = [tun EXCEPT ![1].breaker.failures = failures]
          /\ call' = [call EXCEPT ![k] =
                         [IdleCall EXCEPT !.op = "record_failure",
                                          !.pc = IF failures >= FailureThreshold
                                                 THEN "rf_state" ELSE "idle"]]
    /\ UNCHANGED <<lock, relayVars>>

\* record_failure, lines 96-101, under the state mutex
CbFailureTransition(k) ==
    /\ call[k].pc = "rf_state"
    /\ lock.state = 0
    /\ tun' = [tun EXCEPT ![1].breaker =
                  IF @.state = "Closed"
                  THEN [@ EXCEPT !.state = "Open", !.age = 0] ELSE @]
    /\ call' = [call EXCEPT ![k].pc = "idle"]
    /\ UNCHANGED <<lock, relayVars>>

\* try_send that lets a frame pass after the open timeout without moving the
\* breaker to HalfOpen
CbTrySendStaysOpen(k) ==
    /\ call[k].pc = "idle"
    /\ lock.state = 0
    /\ LET new == [IdleCall EXCEPT !.op = "try_send", !.data = k]
       IN IF Cb.state \in {"Closed", "HalfOpen"} \/ Cb.age >= OpenTimeoutTicks
          THEN /\ call' = [call EXCEPT ![k] = [new EXCEPT !.res = "ok"]]
               /\ UNCHANGED <<tun, lock>>
          ELSE /\ call' = [call EXCEPT ![k] = [new EXCEPT !.pc = "ts_queue"]]
               /\ lock' = [lock EXCEPT !.state = k]
               /\ UNCHANGED tun
    /\ UNCHANGED relayVars

\* try_send, lines 109-122: the state mutex is taken and the state matched;
\* an Open breaker whose timeout has not elapsed goes on to the queue with
\* the state mutex held
CbTrySend(k) ==
    /\ call[k].pc = "idle"
    /\ lock.state = 0
    /\ LET new == [IdleCall EXCEPT !.op = "try_send", !.data = k]
       IN IF Cb.state \in {"Closed", "HalfOpen"}
          THEN /\ call' = [call EXCEPT ![k] = [new EXCEPT !.res = "ok"]]
               /\ UNCHANGED <<tun, lock>>
          ELSE IF Cb.age >= OpenTimeoutTicks
          THEN /\ tun' = [tun EXCEPT ![1].breaker.state = "HalfOpen",
                                     ![1].breaker.age = 0]
               /\ call' = [call EXCEPT ![k] = [new EXCEPT !.res = "ok"]]
               /\ UNCHANGED lock
          ELSE /\ call' = [call EXCEPT ![k] = [new EXCEPT !.pc = "ts_queue"]]
               /\ lock' = [lock EXCEPT !.state = k]
               /\ UNCHANGED tun
    /\ UNCHANGED relayVars

\* CbEnqueue without the test of the queue's length
CbEnqueueUnbounded(k) ==
    /\ call[k].pc = "ts_queue"
    /\ lock.queue = 0
    /\ tun' = [tun EXCEPT ![1].breaker.queue =
                  Append(@, [data |-> call[k].data, age |-> 0])]
    /\ call' = [call EXCEPT ![k].pc = "idle", ![k].res = "queued"]
    /\ lock' = [lock EXCEPT !.state = 0]
    /\ UNCHANGED relayVars

\* try_send, lines 124-134, under the queue mutex: push or drop, Err(())
CbEnqueue(k) ==
    /\ call[k].pc = "ts_queue"
    /\ lock.queue = 0
    /\ IF Len(Cb.queue) < MaxQueueSize
       THEN /\ tun' = [tun EXCEPT ![1].breaker.queue =
                          Append(@, [data |-> call[k].data, age |-> 0])]
            /\ call' = [call EXCEPT ![k].pc = "idle", ![k].res = "queued"]
       ELSE /\ tun' = tun
            /\ call' = [call EXCEPT ![k].pc = "idle", ![k].res = "dropped"]
    /\ lock' = [lock EXCEPT !.state = 0]
    /\ UNCHANGED relayVars

\* drain_queue, lines 142-149: the queue mutex is taken and the queue emptied
CbDrainQueue(k) ==
    /\ call[k].pc = "idle"
    /\ lock.queue = 0
    /\ tun' = [tun EXCEPT ![1].breaker.queue = <<>>]
    /\ call' = [call EXCEPT ![k] = [IdleCall EXCEPT !.op = "drain_queue", !.pc = "dq_state",
                                                    !.out = ValidData(Cb.queue)]]
    /\ lock' = [lock EXCEPT !.queue = k]
    /\ UNCHANGED relayVars

\* drain_queue, lines 152-158, under the state mutex as well
CbDrainReset(k) ==
    /\ call[k].pc = "dq_state"
    /\ lock.state = 0
    /\ tun' = [tun EXCEPT ![1].breaker.state = "Closed",
                          ![1].breaker.failures = 0,
                          ![1].breaker.age = 0]
    /\ call' = [call EXCEPT ![k].pc = "idle"]
    /\ lock' = [lock EXCEPT !.queue = 0]
    /\ UNCHANGED relayVars

\* ------------------------------------------------------ the filter, call by call
notFx ==
    <<registry, active, clock, sock, tun, wire, up, agent, hs, nextInv, ret, call, lock,
      mt, written>>

\* IpFilter::from_strings on the advertised lists
FxFromStrings ==
    /\ fx.pc = "input"
    /\ fx' = [fx EXCEPT !.pc = "filter", !.filter = FromStrings(fx.allow, fx.deny)]
    /\ UNCHANGED <<notFx, fw>>

\* IpFilter::is_allowed on the address
FxIsAllowed ==
    /\ fx.pc = "filter"
    /\ fx' = [fx EXCEPT !.pc = "parse", !.allowed = IsAllowed(fx.filter, fx.ip)]
    /\ UNCHANGED <<notFx, fw>>

\* CidrRange::parse on the CIDR string
FxParse ==
    /\ fx.pc = "parse"
    /\ fx' = [fx EXCEPT !.pc = "contains", !.range = CidrParse(fx.cidr)]
    /\ UNCHANGED <<notFx, fw>>

\* CidrRange::contains on the parsed range, when there is one
FxContains ==
    /\ fx.pc = "contains"
    /\ fx' = [fx EXCEPT !.pc = "done",
                        !.inside = fx.range.some /\ CidrContains(fx.range, fx.ip)]
    /\ UNCHANGED <<notFx, fw>>

\* ---------------------------------------------------- the agent's forwarder
\* find_header_end: the position of the first "\r\n\r\n", 0 for None
FindHeaderEnd(buf) ==
    LET at == {i \in 1..(Len(buf) - 1) : buf[i].t = "crlf" /\ buf[i + 1].t = "crlf"}
    IN IF at = {} THEN 0 ELSE CHOOSE i \in at : \A j \in at : i <= j

\* lines 217-232: the lines of the header block after its first line, as
\* split_header_kv splits them
HeaderLines(head) ==
    LET ends == {i \in 1..Len(head) : head[i].t = "crlf"}
        first == IF ends = {} THEN Len(head) ELSE CHOOSE i \in ends : \A j \in ends : i <= j
    IN SelectSeq(SubSeq(head, first + 1, Len(head)), LAMBDA u : u.t = "header")

\* lines 221-229: content_len is the value of the last line named
\* Content-Length, in any case, whose value parses
ContentLen(lines) ==
    LET lower(k) == IF k = "Content-Length" THEN "content-length" ELSE k
        at == {i \in 1..Len(lines) : lower(lines[i].k) = "content-length" /\ lines[i].num}
    IN IF at = {} THEN [some |-> FALSE, n |-> 0]
       ELSE [some |-> TRUE, n |-> lines[CHOOSE i \in at : \A j \in at : j <= i].v]

\* lines 175-201: the request is decoded, the connection to the local service
\* made and the request written; the service answers with bytes of its own
FwdStart ==
    /\ fw.pc = "idle"
    /\ \E id \in 1..2, d \in {0, HeaderReads - 1, HeaderReads}, m \in 0..MaxBody,
          complete \in BOOLEAN, closes \in BOOLEAN,
          lines \in {<<>>, <<Unit("header", "x-served-by", FALSE, 0)>>,
                     <<Unit("header", "content-length", FALSE, 0)>>,
                     <<Unit("header", "content-length", TRUE, 2),
                       Unit("header", "Content-Length", TRUE, 1)>>}
                    \cup {<<Unit("header", "Content-Length", TRUE, n)>> : n \in 0..MaxBody} :
          fw' = [NoForward EXCEPT !.pc = "head", !.id = id, !.drib = d, !.closes = closes,
                                  !.bytes = ServiceBytes(d, lines, m, complete)]
    /\ UNCHANGED <<notFx, fx>>

\* What stream.read can return: 0 bytes at the end of a closed stream, or
\* some or all of the bytes the service has not written yet.
ReadSizes ==
    IF fw.pos = Len(fw.bytes) THEN (IF fw.closes THEN {0} ELSE {})
    ELSE IF fw.pos < fw.drib THEN {1}
    ELSE 1..Min(MaxChunk, Len(fw.bytes) - fw.pos) \cup {Len(fw.bytes) - fw.pos}

\* lines 203-213: one iteration of the bounded read loop, and the `?` of a
\* failed read
FwdReadHead ==
    /\ fw.pc = "head"
    /\ \/ \E n \in ReadSizes :
             LET buf == fw.buf \o SubSeq(fw.bytes, fw.pos + 1, fw.pos + n)
                 hend == FindHeaderEnd(buf)
             IN fw' = IF n = 0
                      THEN [fw EXCEPT !.pc = "parse"]
                      ELSE [fw EXCEPT !.pos = @ + n, !.reads = @ + 1, !.buf = buf,
                                      !.hend = hend,
                                      !.pc = IF hend # 0 \/ fw.reads + 1 = HeaderReads
                                             THEN "parse" ELSE "head"]
       \/ fw' = [fw EXCEPT !.pc = "failed"]
    /\ UNCHANGED <<notFx, fx>>

\* lines 215-234 and 246-248: status line (the only place of a "status"
\* unit), headers and the body bytes already in buf; without a header end the
\* whole buffer is the body of a 200
FwdParse ==
    /\ fw.pc = "parse"
    /\ fw' = IF fw.hend # 0
             THEN LET head == SubSeq(fw.buf, 1, fw.hend - 1)
                      lines == HeaderLines(head)
                      code == SelectSeq(head, LAMBDA u : u.t = "status")
                  IN [fw EXCEPT !.status = IF code # <<>> THEN code[1].v ELSE 200,
                                !.headers = [i \in 1..Len(lines) |->
                                               <<lines[i].k, lines[i].v>>],
                                !.cl = ContentLen(lines),
                                !.body = SubSeq(fw.buf, fw.hend + 2, Len(fw.buf)),
                                !.pc = "fill"]
             ELSE [fw EXCEPT !.status = 200, !.headers = <<>>, !.body = fw.buf,
                             !.pc = "send"]
    /\ UNCHANGED <<notFx, fx>>

\* lines 235-240: with a content_len, read until the body has that many
\* bytes or the stream ends
FwdReadBody ==
    /\ fw.pc = "fill"
    /\ fw.cl.some
    /\ Len(fw.body) < fw.cl.n
    /\ \/ \E n \in ReadSizes :
             fw' = IF n = 0
                   THEN [fw EXCEPT !.pc = "send"]
                   ELSE [fw EXCEPT !.pos = @ + n,
                                   !.body = @ \o SubSeq(fw.bytes, fw.pos + 1, fw.pos + n)]
       \/ fw' = [fw EXCEPT !.pc = "failed"]
    /\ UNCHANGED <<notFx, fx>>

\* FwdRespond without the truncation of lines 241-243
FwdRespondKeepsOverrun ==
    /\ \/ fw.pc = "send"
       \/ fw.pc = "fill" /\ (fw.cl.some => Len(fw.body) >= fw.cl.n)
    /\ fw' = [fw EXCEPT !.pc = "sent",
                        !.resp = [id |-> fw.id, status |-> fw.status,
                                  headers |-> fw.headers, body |-> fw.body]]
    /\ UNCHANGED <<notFx, fx>>

\* lines 241-259: the overrun is cut off and the TunnelResponse built
FwdRespond ==
    /\ \/ fw.pc = "send"
       \/ fw.pc = "fill" /\ (fw.cl.some => Len(fw.body) >= fw.cl.n)
    /\ LET body == IF fw.cl.some /\ Len(fw.body) > fw.cl.n
                   THEN SubSeq(fw.body, 1, fw.cl.n) ELSE fw.body
       IN fw' = [fw EXCEPT !.pc = "sent", !.body = body,
                           !.resp = [id |-> fw.id, status |-> fw.status,
                                     headers |-> fw.headers, body |-> body]]
    /\ UNCHANGED <<notFx, fx>>

\* ----------------------------------------------------- the multi-tunnel task
\* What the relay end of a control channel can deliver to the agent: the
\* three kinds of acknowledgement text, a forwarded request the agent can
\* decode, one it cannot, a ping and a close frame.
AgentMessages ==
    {"ack_ok", "ack_refused", "ack_garbled", "request", "bad_request", "ping", "close"}

otherVars ==
    <<registry, active, clock, sock, tun, wire, up, agent, hs, nextInv, ret, call, lock,
      written, fx, fw>>

\* connect_async(relay_url).await?, line 86
AgConnect ==
    /\ mt.pc = "connect"
    /\ mt.conns < MaxConnects
    /\ \E ok \in BOOLEAN :
          mt' = IF ok
                THEN [pc |-> "advertise", conns |-> mt.conns + 1, link |-> "up",
                      inbox |-> <<>>, got |-> 0, sent |-> 0]
                ELSE [mt EXCEPT !.pc = "backoff", !.conns = @ + 1, !.link = "none"]
    /\ UNCHANGED otherVars

\* the advertisement, lines 90-101: write.send(...).await?
AgAdvertise ==
    /\ mt.pc = "advertise"
    /\ mt' = [mt EXCEPT !.pc = IF mt.link = "up" THEN "ack" ELSE "backoff"]
    /\ UNCHANGED otherVars

\* lines 104-114: the first message; anything that is not a text message,
\* the end of the stream included, falls through to the main loop
AgAck ==
    /\ mt.pc = "ack"
    /\ IF mt.inbox # <<>>
       THEN LET m == Head(mt.inbox)
            IN mt' = [mt EXCEPT !.inbox = Tail(@),
                                !.pc = IF m \in {"ack_refused", "ack_garbled"}
                                       THEN "backoff" ELSE "loop"]
       ELSE /\ mt.link # "up"
            /\ mt' = [mt EXCEPT !.pc = "loop"]
    /\ UNCHANGED otherVars

\* lines 121-141 and handle_http_request: a forwarded request is answered
\* with one response frame, or an error is logged and nothing is written;
\* either way the loop goes on
AgServe ==
    /\ mt.pc = "loop"
    /\ mt.inbox # <<>>
    /\ Head(mt.inbox) \in {"request", "bad_request"}
    /\ \E local \in {"answers", "refuses"} :
          LET framed == /\ Head(mt.inbox) = "request"
                        /\ local = "answers"
                        /\ mt.link = "up"
          IN mt' = [mt EXCEPT !.inbox = Tail(@),
                              !.sent = IF framed THEN @ + 1 ELSE @]
    /\ UNCHANGED otherVars

\* lines 142-144: write.send(Message::Pong(data)).await?
AgPong ==
    /\ mt.pc = "loop"
    /\ mt.inbox # <<>>
    /\ Head(mt.inbox) = "ping"
    /\ mt' = [mt EXCEPT !.inbox = Tail(@),
                        !.pc = IF mt.link = "up" THEN "loop" ELSE "backoff"]
    /\ UNCHANGED otherVars

\* line 150: text messages in the main loop are ignored
AgIgnore ==
    /\ mt.pc = "loop"
    /\ mt.inbox # <<>>
    /\ Head(mt.inbox) \in {"ack_ok", "ack_refused", "ack_garbled"}
    /\ mt' = [mt EXCEPT !.inbox = Tail(@)]
    /\ UNCHANGED otherVars

\* lines 145-149 and 156, then lines 49-52: a close frame, the end of the
\* stream or a transport error breaks the loop, run_single_tunnel returns
\* Ok(()) and the task leaves its reconnect loop
AgBreak ==
    /\ mt.pc = "loop"
    /\ \/ mt.inbox # <<>> /\ Head(mt.inbox) = "close"
       \/ mt.inbox = <<>> /\ mt.link \in {"eof", "error"}
    /\ mt' = [mt EXCEPT !.pc = "stopped", !.inbox = <<>>]
    /\ UNCHANGED otherVars

\* lines 53-56: Err(e) => sleep 5 s, then the loop calls run_single_tunnel again
AgBackoff ==
    /\ mt.pc = "backoff"
    /\ mt' = [mt EXCEPT !.pc = "connect", !.link = "none", !.inbox = <<>>]
    /\ UNCHANGED otherVars

\* The relay writes a message on the open control channel.
NetDeliver ==
    /\ mt.pc \in {"advertise", "ack", "loop"}
    /\ mt.link = "up"
    /\ mt.got < MaxFrames
    /\ \E m \in AgentMessages :
          mt' = [mt EXCEPT !.inbox = Append(@, m), !.got = @ + 1]
    /\ UNCHANGED otherVars

\* The transport ends (EOF) or fails (error) under the agent.
NetBreak ==
    /\ mt.pc \in {"advertise", "ack", "loop"}
    /\ mt.link = "up"
    /\ \E how \in {"eof", "error"} : mt' = [mt EXCEPT !.link = how]
    /\ UNCHANGED otherVars

\* ------------------------------------------------------------ specifications
\* Registration and teardown of the control channels CS.
Registration(CS, Subs, Adverts) ==
    \/ \E c \in CS : SockRegister(c, Subs, Adverts)
    \/ \E c \in CS : SockInsert(c)
    \/ \E c \in CS : SockAck(c)
    \/ \E c \in CS : SockDrain(c)
    \/ \E c \in CS : SockRecvClose(c)
    \/ \E c \in CS : AgentClose(c)

\* Frames and pings written to the control channels CS.
Outbound(CS) ==
    \/ \E c \in CS : SockSend(c)
    \/ \E c \in CS : SockUnblock(c)
    \/ \E c \in CS : SockPingFail(c)

\* The agents of CS reading frames and answering them, and the answers
\* reaching the handler tasks HS.
Inbound(CS, HS, Resps) ==
    \/ \E c \in CS : AgentRespond(c, Resps)
    \/ \E c \in CS : AgentFail(c)
    \/ \E c \in CS : SockRecvResponse(c)
    \/ \E h \in HS : HandlerResponse(h)

\* At most invs public requests served by the handler tasks HS.
Requests(HS, invs, maxc, cap, Sources, Bodies) ==
    \/ \E h \in HS : HandlerLookup(h, Sources, Bodies, invs, maxc)
    \/ \E h \in HS : HandlerTrySend(h)
    \/ \E h \in HS : HandlerSend(h, cap)
    \/ \E h \in HS : HandlerTimeout(h)

CoreSubs == {SomeSubdomain(n) : n \in SubChoices}
CoreAdverts == {EmptyAdvert}
CoreSources == {Source(AllowedIp, NoIp, AllowedIp)}
CoreBodies == {"small"}
CoreResps == {Response(st, <<>>, <<>>) : st \in AgentStatuses}

\* One tunnel multiplexing concurrent public requests.
Next ==
    \/ Registration({1}, CoreSubs, CoreAdverts)
    \/ Outbound({1})
    \/ Inbound({1}, Handlers, CoreResps)
    \/ Requests(Handlers, MaxInv, MaxClock, ChanCap, CoreSources, CoreBodies)
    \/ \E h \in Handlers : HandlerClosed(h)
    \/ Tick(MaxClock)

Spec == Init /\ [][Next]_vars

\* Concurrent registrations and teardowns with every kind of advertised
\* subdomain, no public request.
NextRegistry == Registration(Conns, AdvertisedSubs, CoreAdverts)

SpecRegistry == Init /\ [][NextRegistry]_vars

\* One tunnel, one public request at a time, with every kind of filter,
\* client address and body.
ReqSources ==
    {Source(AllowedIp, NoIp, AllowedIp), Source(DeniedIp, NoIp, AllowedIp),
     Source(OutsideIp, NoIp, AllowedIp), Source(NoIp, NoIp, DeniedIp),
     Source(NoIp, NoIp, AllowedIp), Source(NoIp, DeniedIp, AllowedIp),
     Source(AllowedIp, DeniedIp, DeniedIp)}

NextRequests ==
    \/ Registration({1}, CoreSubs, FilterAdverts)
    \/ Outbound({1})
    \/ Inbound({1}, {1}, CoreResps)
    \/ Requests({1}, ReqInv, MaxClock, ChanCap, ReqSources, BodyKinds)
    \/ Tick(MaxClock)

SpecRequests == Init /\ [][NextRequests]_vars

\* One tunnel whose agent registers and then neither reads nor answers (it
\* may still disconnect), with the relay's tasks scheduled fairly: the runtime
\* runs every handler task and the registration task whenever they can
\* proceed, and timers fire.  Nothing is assumed about the agent.
NextSilent ==
    \/ Registration({1}, CoreSubs, CoreAdverts)
    \/ Outbound({1})
    \/ Requests(Handlers, LiveInv, MaxClock, ChanCap, CoreSources, CoreBodies)
    \/ \E h \in Handlers : HandlerClosed(h)
    \/ Tick(MaxClock)

RelayFairness ==
    /\ WF_vars(Tick(MaxClock))
    /\ WF_vars(SockInsert(1)) /\ WF_vars(SockAck(1)) /\ WF_vars(SockDrain(1))
    /\ WF_vars(SockRecvClose(1))
    /\ WF_vars(SockSend(1)) /\ WF_vars(SockUnblock(1)) /\ WF_vars(SockPingFail(1))
    /\ \A h \in Handlers :
          /\ WF_vars(HandlerTrySend(h)) /\ WF_vars(HandlerSend(h, ChanCap))
          /\ WF_vars(HandlerResponse(h)) /\ WF_vars(HandlerClosed(h))
          /\ WF_vars(HandlerTimeout(h))

SpecLive == Init /\ [][NextSilent]_vars /\ RelayFairness

\* The start of handle_socket with the first frame left to the agent: it may
\* advertise, send something else, close, or stay silent.  The relay's tasks
\* are scheduled by the runtime; nothing obliges the agent to act.
NextHandshake ==
    \/ \E c \in Conns : SockAccept(c)
    \/ \E c \in Conns : AgentAdvertise(c, AdvertisedSubs, FilterAdverts)
    \/ \E c \in Conns : SockRecvFirst(c)
    \/ \E c \in Conns : SockInsert(c)
    \/ \E c \in Conns : SockAck(c)
    \/ \E c \in Conns : SockDrain(c)
    \/ \E c \in Conns : SockRecvClose(c)
    \/ \E c \in Conns : AgentClose(c)
    \/ Tick(MaxClock)

HandshakeFairness ==
    /\ WF_vars(Tick(MaxClock))
    /\ \A c \in Conns :
          /\ WF_vars(SockAccept(c)) /\ WF_vars(SockRecvFirst(c))
          /\ WF_vars(SockInsert(c)) /\ WF_vars(SockAck(c)) /\ WF_vars(SockDrain(c))
          /\ WF_vars(SockRecvClose(c))

SpecHandshake == Init /\ [][NextHandshake]_vars /\ HandshakeFairness

\* A breaker called concurrently by the tasks that hold a clone of it.
NextBreaker ==
    \/ \E k \in Callers : CbRecordSuccess(k)
    \/ \E k \in Callers : CbSuccessTransition(k)
    \/ \E k \in Callers : CbRecordFailure(k)
    \/ \E k \in Callers : CbFailureTransition(k)
    \/ \E k \in Callers : CbTrySend(k)
    \/ \E k \in Callers : CbEnqueue(k)
    \/ \E k \in Callers : CbDrainQueue(k)
    \/ \E k \in Callers : CbDrainReset(k)
    \/ Tick(MaxClock)

SpecBreaker == Init /\ [][NextBreaker]_vars

\* One tunnel serving public requests one after the other through an outage:
\* its agent answers, stays silent or is gone.
NextOutage ==
    \/ Registration({1}, CoreSubs, CoreAdverts)
    \/ Outbound({1})
    \/ Inbound({1}, {1}, CoreResps)
    \/ Requests({1}, OutageInv, OutageClock, ChanCap, CoreSources, CoreBodies)
    \/ Tick(OutageClock)

SpecOutage == Init /\ [][NextOutage]_vars

\* One tunnel, one public request at a time, answered by the agent with every
\* kind of status, header list and body.
NextResponses ==
    \/ Registration({1}, CoreSubs, CoreAdverts)
    \/ Outbound({1})
    \/ Inbound({1}, {1}, AgentResponses)
    \/ Requests({1}, ReqInv, MaxClock, ChanCap, CoreSources, CoreBodies)
    \/ Tick(MaxClock)

SpecResponses == Init /\ [][NextResponses]_vars

\* One tunnel whose outbound queue holds as many frames as the breaker needs
\* failures to open, so that the breaker can open and queue a frame while the
\* registration handler is still between its insert and its drain.
NextBacklog ==
    \/ Registration({1}, CoreSubs, CoreAdverts)
    \/ Outbound({1})
    \/ Inbound({1}, {1}, CoreResps)
    \/ Requests({1}, BacklogInv, BacklogClock, BacklogChan, CoreSources, CoreBodies)
    \/ Tick(BacklogClock)

SpecBacklog == Init /\ [][NextBacklog]_vars

\* The IP filter applied to every sample input.
NextFilter ==
    \/ FxFromStrings
    \/ FxIsAllowed
    \/ FxParse
    \/ FxContains

SpecFilter == InitFilter /\ [][NextFilter]_vars

\* The multi-tunnel task of one tunnel against a relay and a network that
\* may do anything; the task itself always takes its next step.
NextAgent ==
    \/ AgConnect
    \/ AgAdvertise
    \/ AgAck
    \/ AgServe
    \/ AgPong
    \/ AgIgnore
    \/ AgBreak
    \/ AgBackoff
    \/ NetDeliver
    \/ NetBreak

AgentFairness ==
    /\ WF_vars(AgConnect)
    /\ WF_vars(AgAdvertise)
    /\ WF_vars(AgAck)
    /\ WF_vars(AgServe)
    /\ WF_vars(AgPong)
    /\ WF_vars(AgIgnore)
    /\ WF_vars(AgBreak)
    /\ WF_vars(AgBackoff)

SpecAgent == Init /\ [][NextAgent]_vars /\ AgentFairness

\* -------------------------------------------------------------------- claims
\* Two control channels registering and closing while two handler tasks serve
\* public requests, with every acquisition of the registry's lock a step of
\* its own: a task can be overtaken while it holds a guard.
NextLease ==
    \/ Registration(Conns, CoreSubs, CoreAdverts)
    \/ \E c \in Conns : SockLeaseRead(c)
    \/ \E c \in Conns : SockLeaseWrite(c)
    \/ \E h \in Handlers : HandlerLease(h, ReqInv, MaxClock)
    \/ Requests(Handlers, ReqInv, MaxClock, ChanCap, CoreSources, CoreBodies)
    \/ Tick(MaxClock)

SpecLease == Init /\ [][NextLease]_vars

\* One tunnel whose advertisement lists an allow string that is no CIDR
\* range, alone or beside one that is, and public requests that name their
\* client address in X-Forwarded-For.
NextFailOpen ==
    \/ Registration({1}, CoreSubs,
                    {[allow |-> <<BadCidrStr>>, deny |-> <<>>],
                     [allow |-> <<BadCidrStr, CidrStr(10, 0, 0, 0, 8)>>, deny |-> <<>>]})
    \/ Outbound({1})
    \/ Inbound({1}, {1}, CoreResps)
    \/ Requests({1}, ReqInv, MaxClock, ChanCap,
                {Source(AllowedIp, NoIp, AllowedIp), Source(OutsideIp, NoIp, AllowedIp)},
                CoreBodies)
    \/ Tick(MaxClock)

SpecFailOpen == Init /\ [][NextFailOpen]_vars

\* One request forwarded to a local service, with every response the
\* service can write and every way the reads can cut it.
NextForward == FwdStart \/ FwdReadHead \/ FwdParse \/ FwdReadBody \/ FwdRespond

SpecForward == Init /\ [][NextForward]_vars

InFlight(h) == hs[h].pc # "idle"
Running(c) == sock[c].pc \in {"loop", "blocked"}

\* C1: a response is delivered only to the invocation that dispatched the
\* request it answers: whenever a receptacle holds a value, that value is the
\* agent's answer to the request of the invocation owning the receptacle.
C1_DeliveredToDispatcher ==
    \A h \in Handlers : hs[h].rx = "value" => hs[h].answers = hs[h].inv

\* C2: two invocations that are in flight on one tunnel at the same time never
\* hold the same request id.
C2_DistinctRequestIds ==
    \A g, h \in Handlers :
        (g # h /\ InFlight(g) /\ InFlight(h) /\ hs[g].conn = hs[h].conn)
            => hs[g].id # hs[h].id

\* C3: every tunnel whose control-channel loop is running is registered under
\* the subdomain it was acknowledged with and under no other key, and no two
\* registry keys map to the same tunnel.
C3_RegistryInvariant ==
    /\ \A c \in Conns :
          Running(c) => /\ [key |-> sock[c].final, conn |-> c] \in registry
                        /\ \A e \in registry : e.conn = c => e.key = sock[c].final
    /\ \A e, f \in registry : e.conn = f.conn => e.key = f.key

\* C4: a registration never overwrites an entry of the registry (its final
\* subdomain is a key the registry does not hold when it inserts), and a
\* registration that met a taken subdomain is acknowledged under another one.
C4_InsertNeverOverwrites ==
    [][\A c \in Conns :
          (sock[c].pc = "insert" /\ sock'[c].pc = "ack")
              => /\ ~RegHas(registry, sock[c].final)
                 /\ [key |-> sock[c].final, conn |-> c] \in registry']_vars

\* C5: when the loop of a control channel whose tunnel is registered exits,
\* the registry loses the entry of that tunnel and no other entry.
C5_ExitRemovesOwnEntry ==
    [][\A c \in Conns :
          (/\ Running(c) /\ sock'[c].pc = "done"
           /\ [key |-> sock[c].final, conn |-> c] \in registry)
              => registry' = registry \ {[key |-> sock[c].final, conn |-> c]}]_vars

\* The client address of a request: X-Forwarded-For, else X-Real-IP, else the
\* peer address of the public connection.
ClientIp(src) == ExtractClientIp(src.xff, src.realip, src.peer)

Disallowed(f, src) == ~FilterIsEmpty(f) /\ ~IsAllowed(f, ClientIp(src))

\* C6: on a tunnel with a non-empty filter no request whose client address
\* the filter disallows is dispatched: it never gets past the filter to be
\* given a request id, a breaker call or a place in the outbound queue.
C6_DisallowedNeverDispatched ==
    \A h \in Handlers :
        InFlight(h) => ~Disallowed(tun[hs[h].conn].filter, hs[h].src)

\* C7: every proxy-handler invocation eventually returns, whatever the agent
\* does or fails to do.
C7_EveryInvocationReturns ==
    \A h \in Handlers : InFlight(h) ~> ~InFlight(h)

\* C8: a handler whose deadline passed with its receptacle still empty returns
\* 504, and in doing so removes its request id from the pending table and
\* raises the breaker's consecutive-failure counter by one.
C8_TimeoutEffect ==
    [][\A h \in Handlers :
          (/\ hs[h].pc = "await" /\ hs[h].rx = "empty" /\ hs[h].timer = 0
           /\ hs'[h].pc = "idle")
              => LET c == hs[h].conn
                 IN /\ ret'.status = 504 /\ ret'.inv = hs[h].inv
                    /\ ~PendHas(tun'[c].pending, hs[h].id)
                    /\ tun'[c].breaker.failures = tun[c].breaker.failures + 1]_vars

C8_Witness == ret.status = 504

\* C9: once a tunnel's control channel has closed, no handler is left waiting
\* on an open, empty receptacle of that tunnel.
C9_CloseCancelsReceptacles ==
    \A h \in Handlers :
        (hs[h].pc = "await" /\ sock[hs[h].conn].pc = "done") => hs[h].rx # "empty"

\* C10: a request whose body exceeds the 10 MiB bound is never dispatched: it
\* gets no request id and no request record of it is built or enqueued.
C10_OversizeNeverDispatched ==
    \A h \in Handlers : InFlight(h) => hs[h].body # "oversize"

\* A tunnel that was registered and acknowledged (it may have closed since).
Acknowledged(c) == sock[c].pc \in {"drain", "loop", "blocked", "done"}

\* C11: after the agent of an acknowledged tunnel has been killed, every public
\* request to the tunnel's subdomain reaches the tunnel's breaker, where it
\* records a failure or is queued with 503: none is answered 404.
C11_AgentLossReachesBreaker ==
    [][\A c \in Conns :
          (/\ Acknowledged(c) /\ agent[c] = "closed"
           /\ nextInv' = nextInv + 1
           /\ \/ ret'.inv = nextInv' /\ ret'.host = sock[c].final
              \/ \E h \in Handlers : hs'[h].inv = nextInv' /\ hs'[h].host = sock[c].final)
              => /\ ret'.inv # nextInv'
                 /\ \E h \in Handlers :
                       /\ hs'[h].inv = nextInv' /\ hs'[h].conn = c
                       /\ hs'[h].pc = "trysend"]_vars

\* C12: a record_failure call that brings the count of consecutive failures to
\* the threshold or beyond leaves the breaker Open, whatever its state was.
C12_ThresholdOpens ==
    [][\A k \in Callers :
          (call[k].pc = "rf_state" /\ call'[k].pc = "idle")
              => tun'[1].breaker.state = "Open"]_vars

\* C13: a failure recorded while the breaker is HalfOpen (the probe request
\* failed) puts the breaker back to Open.
C13_FailedProbeReopens ==
    [][\A c \in Conns :
          (/\ tun[c].breaker.state = "HalfOpen"
           /\ tun'[c].breaker.failures = tun[c].breaker.failures + 1)
              => tun'[c].breaker.state = "Open"]_vars

\* C14: a try_send that finds the breaker HalfOpen (the probe is still
\* unresolved) does not pass: it is queued or dropped as in Open.
C14_SingleProbe ==
    [][\A k \in Callers :
          (/\ call[k].pc = "idle" /\ call'[k] # call[k]
           /\ call'[k].op = "try_send"
           /\ tun[1].breaker.state = "HalfOpen")
              => call'[k].res # "ok"]_vars

\* C15: the queue of a breaker never holds more than max_queue_size frames,
\* however the calls into the breaker interleave.
C15_QueueBounded ==
    \A c \in Conns : Len(tun[c].breaker.queue) <= MaxQueueSize

\* a full queue, and a try_send that found it full and dropped its frame
C15_Witness ==
    /\ Len(tun[1].breaker.queue) = MaxQueueSize
    /\ \E k \in Callers : call[k].op = "try_send" /\ call[k].res = "dropped"

\* The invocations on tunnel c that have dispatched a request (their
\* receptacle is in the table or was) and have not returned yet.
Dispatched(c) == {h \in Handlers : hs[h].conn = c /\ hs[h].pc \in {"send", "await"}}

\* C16: a tunnel's pending table never holds more entries than there are
\* invocations on the tunnel that dispatched a request and have not returned;
\* once every invocation has returned the table is empty.
C16_NoLeakedReceptacles ==
    \A c \in Conns : Cardinality(tun[c].pending) <= Cardinality(Dispatched(c))

\* an invocation dispatched a request and returned through an error path,
\* nothing is in flight and the table is empty
C16_Witness ==
    /\ ret.id # NoId /\ ret.status \in {502, 504}
    /\ \A h \in Handlers : ~InFlight(h)
    /\ \A c \in Conns : tun[c].pending = {}

\* C17: a response frame whose id is not in the pending table is dropped
\* without effect: no handler receives it and the tunnel, its breaker's state
\* and consecutive-failure counter included, is left as it was.
C17_UnknownIdDropped ==
    [][\A c \in Conns :
          (/\ sock[c].pc = "loop" /\ up[c] # <<>> /\ up'[c] = Tail(up[c])
           /\ ~PendHas(tun[c].pending, Head(up[c]).id))
              => tun'[c] = tun[c] /\ hs' = hs]_vars

\* C18: when the breaker refuses a request (it is Open and its timeout has not
\* elapsed, so try_send queues or drops the frame), the handler answers 503,
\* the request has no entry in the pending table afterwards, nothing is put on
\* the outbound queue, and the breaker's state and failure counter stay.
C18_RefusedByBreaker ==
    [][\A h \in Handlers :
          (/\ hs[h].pc = "trysend" /\ hs'[h].pc # "trysend"
           /\ tun[hs[h].conn].breaker.state = "Open"
           /\ tun[hs[h].conn].breaker.age < OpenTimeoutTicks)
              => LET c == hs[h].conn
                 IN /\ ret'.status = 503 /\ ret'.inv = hs[h].inv
                    /\ [id |-> hs[h].id, inv |-> hs[h].inv] \notin tun'[c].pending
                    /\ tun'[c].chan = tun[c].chan
                    /\ tun'[c].breaker.state = tun[c].breaker.state
                    /\ tun'[c].breaker.failures = tun[c].breaker.failures]_vars

\* a request answered 503 after the queue was full: its frame was dropped
C18_Witness ==
    /\ ret.status = 503
    /\ ret.inv > FailureThreshold + MaxQueueSize
    /\ Len(tun[ret.conn].breaker.queue) = MaxQueueSize

\* C19: a handler whose enqueue on the outbound queue fails because the queue
\* is closed answers 502, and in doing so removes its request id from the
\* pending table and raises the breaker's failure counter by exactly one.
C19_SendFailureEffect ==
    [][\A h \in Handlers :
          (/\ hs[h].pc = "send" /\ hs'[h].pc # "send"
           /\ ~tun[hs[h].conn].chanOpen)
              => LET c == hs[h].conn
                 IN /\ ret'.status = 502 /\ ret'.inv = hs[h].inv
                    /\ ~PendHas(tun'[c].pending, hs[h].id)
                    /\ tun'[c].breaker.failures = tun[c].breaker.failures + 1]_vars

\* the only request so far was answered 502: no sender can have been replaced,
\* so its enqueue failed
C19_Witness ==
    /\ nextInv = 1
    /\ ret.status = 502 /\ ret.inv = 1
    /\ ~tun[ret.conn].chanOpen

\* C20: the filter decides on the X-Forwarded-For address when the request has
\* one, else on the X-Real-IP address, else on the peer address of the public
\* connection: a request that got past a non-empty filter is allowed by it on
\* that address, and a request answered 403 is disallowed on that address.
C20_ClientIpPriority ==
    /\ \A h \in Handlers :
          (InFlight(h) /\ ~FilterIsEmpty(tun[hs[h].conn].filter))
              => LET f == tun[hs[h].conn].filter
                     src == hs[h].src
                 IN IF src.xff # NoIp THEN IsAllowed(f, src.xff)
                    ELSE IF src.realip # NoIp THEN IsAllowed(f, src.realip)
                    ELSE IsAllowed(f, src.peer)
    /\ ret.status = 403
          => LET f == tun[ret.conn].filter
                 src == ret.src
             IN IF src.xff # NoIp THEN ~IsAllowed(f, src.xff)
                ELSE IF src.realip # NoIp THEN ~IsAllowed(f, src.realip)
                ELSE ~IsAllowed(f, src.peer)

\* C21: the empty string is never a key of the registry and never the
\* subdomain a tunnel is registered or acknowledged under: a registration that
\* advertises no subdomain or the empty one gets a generated, non-empty name.
C21_NoEmptySubdomain ==
    /\ \A e \in registry : e.key # <<>>
    /\ \A c \in Conns : sock[c].pc # "idle" => sock[c].final # <<>>

\* C22: in multi-tunnel mode a lost control channel (connect failure, transport
\* error, EOF or relay-side close) always leads, after the 5 s backoff, to a
\* new connection attempt; the task never stays disconnected for good.
C22_AlwaysReconnects ==
    (mt.pc \in {"backoff", "stopped"}) ~> (mt.pc = "connect")

\* C23: delivery is at-most-once: no step writes to a control channel the
\* frame of a request whose frame was written before, nor the same frame
\* twice; so a request answered 502, 503 or 504 after its frame went out is
\* never transmitted again.
C23_AtMostOnce ==
    [][\A c \in Conns :
          Len(wire'[c]) > Len(wire[c])
              => LET new == (Len(wire[c]) + 1)..Len(wire'[c])
                 IN \A k \in new :
                       /\ wire'[c][k].inv \notin written
                       /\ \A j \in new : wire'[c][j].inv = wire'[c][k].inv => j = k]_vars

\* a frame the breaker queued (its caller was answered 503) has been written by
\* the drain of the registration handler, after three requests whose frames
\* went to the outbound queue were answered 504
C23_Witness ==
    /\ ret.status = 503
    /\ ret.inv \in written
    /\ \E i \in 1..Len(wire[1]) : wire[1][i].inv = ret.inv

\* C24: when the agent fails to service a forwarded request it writes no
\* response frame and keeps the control channel open, and the invocation that
\* forwarded the request returns 504.
C24_UnservicedTimesOut ==
    [][\A h \in Handlers :
          /\ (~hs[h].warned /\ hs'[h].warned) => (up' = up /\ agent' = agent)
          /\ (hs[h].warned /\ hs'[h].pc = "idle")
                => (ret'.inv = hs[h].inv /\ ret'.status = 504)]_vars

\* C25: a caller whose request id was matched by a response frame gets that
\* frame's headers in the same order, repeated names included, its body
\* unchanged and its status verbatim.
C25_ResponsePreserved ==
    [][\A h \in Handlers :
          (hs[h].pc = "await" /\ hs[h].rx = "value" /\ hs'[h].pc = "idle")
              => /\ ret'.inv = hs[h].inv
                 /\ ret'.status = hs[h].status
                 /\ ret'.headers = hs[h].headers
                 /\ ret'.rbody = hs[h].rbody]_vars

Matches(ranges, ip) == \E i \in 1..Len(ranges) : CidrContains(ranges[i], ip)

\* C26: is_allowed is false for an address in some deny range; otherwise true
\* when the allow list is empty; otherwise true exactly when the address is in
\* some allow range.  A filter with both lists empty allows every address.
C26_DenyThenAllow ==
    fx.pc \in {"parse", "contains", "done"}
        => /\ Matches(fx.filter.deny, fx.ip) => ~fx.allowed
           /\ (~Matches(fx.filter.deny, fx.ip) /\ fx.filter.allow = <<>>) => fx.allowed
           /\ (~Matches(fx.filter.deny, fx.ip) /\ fx.filter.allow # <<>>)
                 => (fx.allowed <=> Matches(fx.filter.allow, fx.ip))
           /\ FilterIsEmpty(fx.filter) => fx.allowed

\* an address that is in an allow range and in a deny range was refused
C26_Witness ==
    /\ fx.pc = "done"
    /\ Matches(fx.filter.allow, fx.ip) /\ Matches(fx.filter.deny, fx.ip)
    /\ ~fx.allowed

\* the first p bits of the addresses x and y are the same
TopBitsEqual(x, y, p) ==
    \A i \in 1..4 :
        LET k == Min(8, p - 8 * (i - 1))
        IN k > 0 => x[i] \div Pow2(8 - k) = y[i] \div Pow2(8 - k)

\* C27: parse accepts every dotted quad with a prefix of 0..32 and rejects a
\* larger prefix; the parsed range contains exactly the IPv4 addresses whose
\* first p bits are those of the quad, and never an IPv6 address.
C27_CidrContainment ==
    LET quad == fx.cidr.wellformed /\ \A i \in 1..4 : fx.cidr.octets[i] <= 255
    IN /\ (fx.pc \in {"contains", "done"} /\ quad)
             => (fx.range.some <=> fx.cidr.prefix <= 32)
       /\ (fx.pc = "done" /\ quad /\ fx.cidr.prefix <= 32)
             => (fx.inside <=> (Len(fx.ip) = 4
                                 /\ TopBitsEqual(fx.ip, fx.cidr.octets, fx.cidr.prefix)))

\* a /23 contains an address that differs from its quad in the last bit of
\* the third octet
C27_Witness ==
    /\ fx.pc = "done"
    /\ fx.cidr = CidrStr(10, 1, 2, 3, 23)
    /\ fx.ip = Ip4(10, 1, 3, 200)
    /\ fx.inside

\* C28: record_success zeroes the failure counter without touching the state,
\* and then, under the state mutex, moves a HalfOpen breaker to Closed and
\* leaves a Closed or Open one as it is, the counter untouched.
C28_SuccessClosesProbe ==
    [][\A k \in Callers :
          /\ (call[k].pc = "idle" /\ call'[k].pc = "rs_state")
                => /\ tun'[1].breaker.failures = 0
                   /\ tun'[1].breaker.state = Cb.state
          /\ (call[k].pc = "rs_state" /\ call'[k].pc = "idle")
                => /\ tun'[1].breaker.state =
                          (IF Cb.state = "HalfOpen" THEN "Closed" ELSE Cb.state)
                   /\ tun'[1].breaker.failures = Cb.failures]_vars

\* a breaker that queued a frame while Open is Closed with that frame still
\* queued: a record_success closed it from HalfOpen, and the counter is zero
C28_Witness ==
    /\ Cb.state = "Closed" /\ Cb.failures = 0
    /\ Cb.queue # <<>>
    /\ \E k \in Callers : call[k].op = "record_success" /\ call[k].pc = "idle"

\* C29: try_send on an Open breaker whose open timeout has not elapsed does
\* not pass the frame: it appends it at the tail of the queue when the queue
\* holds fewer than the maximum, drops it otherwise, and leaves the state Open
\* and the counter as they were.  Once the timeout has elapsed it moves the
\* breaker to HalfOpen and passes the frame without queuing it.  On a Closed
\* breaker it passes the frame and changes nothing.
C29_TrySendWhileOpen ==
    [][/\ (Cb.state = "Open" /\ tun'[1].breaker.state = "HalfOpen")
            => /\ Cb.age >= OpenTimeoutTicks
               /\ tun'[1].breaker = [Cb EXCEPT !.state = "HalfOpen", !.age = 0]
               /\ \E k \in Callers :
                     /\ call[k].pc = "idle" /\ call'[k].pc = "idle"
                     /\ call'[k].op = "try_send" /\ call'[k].res = "ok"
       /\ \A k \in Callers :
             /\ (call[k].pc = "idle" /\ call'[k].op = "try_send" /\ call'[k] # call[k])
                   => IF Cb.state = "Closed"
                      THEN call'[k].pc = "idle" /\ call'[k].res = "ok" /\ tun' = tun
                      ELSE IF Cb.state = "Open" /\ Cb.age >= OpenTimeoutTicks
                      THEN /\ call'[k].pc = "idle" /\ call'[k].res = "ok"
                           /\ tun'[1].breaker = [Cb EXCEPT !.state = "HalfOpen", !.age = 0]
                      ELSE IF Cb.state = "Open"
                      THEN call'[k].pc = "ts_queue" /\ call'[k].res # "ok" /\ tun' = tun
                      ELSE TRUE
             /\ (call[k].pc = "ts_queue" /\ call'[k].pc = "idle")
                   => /\ Cb.state = "Open"
                      /\ tun'[1].breaker.state = "Open"
                      /\ tun'[1].breaker.failures = Cb.failures
                      /\ IF Len(Cb.queue) < MaxQueueSize
                         THEN /\ call'[k].res = "queued"
                              /\ Len(tun'[1].breaker.queue) = Len(Cb.queue) + 1
                              /\ SubSeq(tun'[1].breaker.queue, 1, Len(Cb.queue)) = Cb.queue
                              /\ tun'[1].breaker.queue[Len(Cb.queue) + 1].data = call[k].data
                         ELSE /\ call'[k].res = "dropped"
                              /\ tun'[1].breaker.queue = Cb.queue]_vars

\* a frame was queued behind another one on an Open breaker, and a later
\* try_send passed its frame by moving the breaker to HalfOpen
C29_Witness ==
    /\ Cb.state = "HalfOpen"
    /\ Len(Cb.queue) = 2
    /\ \E k \in Callers :
          /\ call[k].op = "try_send" /\ call[k].pc = "idle" /\ call[k].res = "ok"

\* the data of the frames of q that are at most MaxRequestAgeTicks old, in
\* the order of q
RECURSIVE NotOlderThanMax(_)
NotOlderThanMax(q) ==
    IF q = <<>> THEN <<>>
    ELSE (IF Head(q).age <= MaxRequestAgeTicks THEN <<Head(q).data>> ELSE <<>>)
         \o NotOlderThanMax(Tail(q))

\* C30: drain_queue returns exactly the queued frames whose age is at most
\* the maximum frame age, in the order they were queued, and leaves the
\* breaker with an empty queue, Closed, and a failure counter of zero.
C30_DrainReturnsValid ==
    [][\A k \in Callers :
          /\ (call[k].pc = "idle" /\ call'[k].pc = "dq_state")
                => /\ call'[k].out = NotOlderThanMax(Cb.queue)
                   /\ tun'[1].breaker.queue = <<>>
          /\ (call[k].pc = "dq_state" /\ call'[k].pc = "idle")
                => /\ tun'[1].breaker.queue = <<>>
                   /\ tun'[1].breaker.state = "Closed"
                   /\ tun'[1].breaker.failures = 0]_vars

\* C31: the breaker's queue is used only while it is Open: a Closed breaker
\* has an empty queue, so the queue is empty whenever the breaker goes from
\* Closed to Open.
C31_QueueOnlyWhileOpen ==
    Cb.state = "Closed" => Cb.queue = <<>>

\* C32: a registration handler does not wait for the first frame forever: an
\* agent that opens the control channel and sends nothing is registered as
\* anonymous after a bounded time.
C32_FirstFrameBounded ==
    \A c \in Conns : (sock[c].pc = "recv") ~> (sock[c].pc # "recv")

\* C33: the drain of the registration handler on its freshly created tunnel
\* writes no frame and leaves the breaker as it was created (Closed, counter
\* zero, empty queue), whatever public requests resolved the tunnel between
\* its insertion and the drain.
C33_FreshDrainIsEmpty ==
    [][\A c \in Conns :
          (sock[c].pc = "drain" /\ sock'[c].pc = "loop")
              => /\ wire'[c] = wire[c]
                 /\ tun[c].breaker.state = "Closed" /\ tun[c].breaker.failures = 0
                 /\ tun'[c].breaker.state = "Closed" /\ tun'[c].breaker.failures = 0
                 /\ tun[c].breaker.queue = <<>>]_vars

\* C34: request frames reach a control channel in the order in which the
\* handlers put them on the tunnel's outbound queue: handlers append at the
\* tail, the registration task takes the head, holds at most that one frame
\* while the transport has no room, and writes it before any other; while
\* the channel is open no frame is skipped or written twice.  The only other
\* frames written are those the same task drained from the breaker before
\* its loop started.
C34_FifoToChannel ==
    [][\A c \in Conns :
          LET chan == tun[c].chan
              cur == sock[c].cur
              open == tun'[c].chanOpen /\ sock'[c].pc \notin {"done", "failed", "insert"}
              drains == sock[c].pc = "drain" /\ sock'[c].pc = "loop"
          IN /\ (open /\ tun'[c].chan # chan)
                   => \/ /\ Len(tun'[c].chan) = Len(chan) + 1
                         /\ SubSeq(tun'[c].chan, 1, Len(chan)) = chan
                      \/ /\ chan # <<>> /\ tun'[c].chan = Tail(chan)
                         /\ cur = <<>>
                         /\ \/ wire'[c] = Append(wire[c], Head(chan))
                            \/ sock'[c].cur = <<Head(chan)>> /\ wire'[c] = wire[c]
             /\ (open /\ sock'[c].cur # cur)
                   => \/ cur = <<>> /\ chan # <<>> /\ sock'[c].cur = <<Head(chan)>>
                                   /\ tun'[c].chan = Tail(chan)
                      \/ cur # <<>> /\ sock'[c].cur = <<>>
                                   /\ wire'[c] = Append(wire[c], cur[1])
                                   /\ tun'[c].chan = chan
             /\ (Len(wire'[c]) > Len(wire[c]) /\ ~drains)
                   => \/ cur # <<>> /\ wire'[c] = Append(wire[c], cur[1])
                      \/ cur = <<>> /\ chan # <<>> /\ wire'[c] = Append(wire[c], Head(chan))
                                   /\ wire'[c][Len(wire'[c])].inv \notin written]_vars

\* the transport holds one frame, the registration task holds the next one
\* and a third one waits on the outbound queue, in the order of their requests
C34_Witness ==
    /\ sock[1].pc = "blocked"
    /\ Len(wire[1]) = 1 /\ Len(tun[1].chan) >= 1
    /\ wire[1][1].inv < sock[1].cur[1].inv
    /\ sock[1].cur[1].inv < tun[1].chan[1].inv

\* The tasks holding a guard of the registry's lock.
LeaseHolders == lock.readers \cup lock.writers

\* C35: no task is suspended on a blocking operation (a breaker call, the
\* enqueue on the outbound queue, the wait for a receptacle, a read or a
\* write of the control channel) while it holds the read or the write guard
\* of the registry: a handle_socket task that holds one is in the conflict
\* resolution or at the insert, a proxy handler that holds one is at the
\* lookup, and the handler's step out of the lookup releases the guard and
\* carries the tunnel the registry held under the requested name.
C35_NoGuardAcrossAwait ==
    [][/\ \A c \in Conns :
             c \in LeaseHolders' => sock'[c].pc \in {"resolve", "insert"}
       /\ \A h \in Handlers :
             /\ HandlerTask(h) \in LeaseHolders' => hs'[h].pc = "lookup"
             /\ (hs[h].pc = "lookup" /\ hs'[h].pc = "trysend") =>
                   /\ HandlerTask(h) \notin LeaseHolders'
                   /\ RegHas(registry, hs'[h].host)
                   /\ hs'[h].conn = RegGet(registry, hs'[h].host)]_vars

\* A handler waits for its receptacle and another is about to enqueue, both
\* having held the read guard, while a third task holds it: the second
\* channel's insert waits for the write guard.
C35_Witness ==
    /\ hs[1].pc = "await"
    /\ hs[2].pc = "lookup"
    /\ HandlerTask(2) \in lock.readers
    /\ sock[2].pc = "insert"
    /\ sock[1].pc = "loop"

\* The service's response as it was written: where its first blank line
\* ends the header block (0: nowhere), the body bytes after it, and the
\* Content-Length the header block carries.
SentSeparator ==
    IF \E i \in 1..(Len(fw.bytes) - 1) : fw.bytes[i].t = "crlf" /\ fw.bytes[i + 1].t = "crlf"
    THEN CHOOSE i \in 1..(Len(fw.bytes) - 1) :
            /\ fw.bytes[i].t = "crlf" /\ fw.bytes[i + 1].t = "crlf"
            /\ \A j \in 1..(i - 1) : ~(fw.bytes[j].t = "crlf" /\ fw.bytes[j + 1].t = "crlf")
    ELSE 0
SentBody == SubSeq(fw.bytes, SentSeparator + 2, Len(fw.bytes))
SentLengths ==
    {i \in 1..SentSeparator :
        /\ fw.bytes[i].t = "header" /\ fw.bytes[i].num
        /\ fw.bytes[i].k \in {"content-length", "Content-Length"}}
CarriesLength(n) ==
    /\ SentSeparator # 0
    /\ \E i \in SentLengths : fw.bytes[i].v = n /\ \A j \in SentLengths : j <= i
FramedTo(n) ==
    /\ fw.resp.body = SubSeq(SentBody, 1, Min(n, Len(SentBody)))
    /\ Len(fw.resp.body) <= n
    /\ fw.resp.id = fw.id

\* C36 as stated: when the response headers of the local service carry
\* Content-Length N, the body of the Response record is the first min(N, M)
\* bytes after the header separator, M being the number of body bytes the
\* service sends before the end of the stream; it is never longer than N,
\* and the record carries the id of the request.
C36_ContentLengthFraming ==
    fw.pc = "sent" => \A n \in 0..MaxBody : CarriesLength(n) => FramedTo(n)

\* C36 as amended: the same, provided the header separator is among the
\* bytes the first 64 reads returned.
C36_FramingWithinReadBound ==
    (fw.pc = "sent"
        /\ \E i \in 1..(Len(fw.buf) - 1) : fw.buf[i].t = "crlf" /\ fw.buf[i + 1].t = "crlf")
      => \A n \in 0..MaxBody : CarriesLength(n) => FramedTo(n)

\* The separator arrived with the 64th read, the service wrote three body
\* bytes under Content-Length 2 after the last of two such headers, and the
\* record holds the first two.
C36_Witness ==
    /\ fw.pc = "sent"
    /\ fw.reads = HeaderReads
    /\ CarriesLength(1)
    /\ Len(SentBody) = 3
    /\ fw.resp.body = <<Unit("byte", "", TRUE, 1)>>
    /\ fw.resp.id = 2

\* The invocation a response frame answers has inserted its receptacle and
\* has neither timed out nor failed: it is about to enqueue its frame or is
\* waiting for the response.
StillWaiting(inv) == \E h \in Handlers : hs[h].inv = inv /\ hs[h].pc \in {"send", "await"}

\* C37: the receptacle of a request is inserted before its frame is enqueued,
\* so whenever the relay reads a response frame for request R whose handler
\* has neither timed out nor failed, the pending table holds R's receptacle
\* under the frame's id.
C37_ResponseFindsReceptacle ==
    [][\A c \in Conns :
          (/\ sock[c].pc = "loop" /\ up[c] # <<>> /\ up'[c] = Tail(up[c])
           /\ StillWaiting(Head(up[c]).inv))
             => /\ PendHas(tun[c].pending, Head(up[c]).id)
                /\ PendGet(tun[c].pending, Head(up[c]).id) = Head(up[c]).inv]_vars

\* C38: concurrent calls into one breaker never deadlock: in no reachable
\* state does one task hold the state mutex while it waits for the queue
\* mutex (try_send, line 124) and another hold the queue mutex while it waits
\* for the state mutex (drain_queue, line 152).
C38_NoLockCycle ==
    ~\E j, k \in Callers :
        /\ j # k
        /\ lock.state = j /\ call[j].op = "try_send" /\ call[j].pc = "ts_queue"
        /\ lock.queue = k /\ call[k].op = "drain_queue" /\ call[k].pc = "dq_state"

\* The range an advertised string denotes holds the address: a string that
\* is no CIDR range denotes none.
InAdvertised(s, ip) ==
    /\ s.wellformed /\ s.prefix <= 32 /\ \A i \in 1..4 : s.octets[i] <= 255
    /\ Len(ip) = 4
    /\ TopBitsEqual(ip, s.octets, s.prefix)

\* C39: the filter does not fail open: when the registration advertised a
\* non-empty allow list, a request whose client address lies in none of the
\* advertised allow ranges is not dispatched (it is answered 403), also when
\* some or all of the advertised strings cannot be parsed.
C39_NoFailOpen ==
    \A h \in Handlers :
        InFlight(h) =>
            LET adv == sock[hs[h].conn].adv
                ip == ClientIp(hs[h].src)
            IN (adv.allow # <<>> /\ ip # NoIp)
                  => \E i \in 1..Len(adv.allow) : InAdvertised(adv.allow[i], ip)

\* No handle_socket task is between its first frame and its loop, or past
\* its loop and not yet returned.
Settled == \A c \in Conns : sock[c].pc \in {"idle", "loop", "blocked", "done", "failed"}

\* C40: whenever no registration or teardown is in progress, the
\* active_tunnels gauge equals the number of entries of the registry (what
\* /health reports) and the number of control channels whose loop is
\* running; the exit of a registered channel takes the gauge back by the one
\* its registration added.
C40_GaugeMatchesRegistry ==
    [][/\ Settled' => /\ active' = Cardinality(registry')
                      /\ active' = Cardinality({c \in Conns : Running(c)}')
       /\ \A c \in Conns :
             (Running(c) /\ sock'[c].pc = "done") => active' = active - 1]_vars

====
